---- MODULE Spec2Model ----
(***************************************************************************)
(* Model of the Notion API wrapper of mcp_tutorial:                        *)
(*   - the block-tree client (BlocksAPI): subtask creation, block update,  *)
(*     subtask status update with parent aggregation, batched append;      *)
(*   - the page client's input validation (PagesAPI);                      *)
(*   - the retry wrapper of the MCP server (with_retry) and the error      *)
(*     mapping of handle_search_todos;                                     *)
(*   - the markdown conversion (parse_markdown_to_blocks and               *)
(*     blocks_to_markdown), on texts that are sequences of characters,     *)
(*     and the block builders create_block and create_rich_text;           *)
(*   - archiving and restoring a page (PagesAPI);                          *)
(*   - the todo view TodoProperties and its Notion property format;        *)
(*   - the connection handle of NotionServer (ensure_client, close);       *)
(*   - the add_content_blocks tool: with_retry around append_children.     *)
(* The remote service is modelled as a store of blocks that answers each   *)
(* HTTP request atomically.                                                *)
(***************************************************************************)
EXTENDS Integers, Sequences, FiniteSets, TLC

(***************************************************************************)
(* Bounds of the model                                                     *)
(***************************************************************************)
\* number of blocks the calls of one behaviour may create
MaxCreated == 2
\* number of requests the PagesAPI calls of one behaviour may send
MaxRequests == 3
\* number of ensure_client calls of one behaviour
MaxEnsures == 3
\* longest short block list handed to append_children or blocks_to_markdown
MaxBlocks == 3

(***************************************************************************)
(* Program constants                                                       *)
(***************************************************************************)
\* get_subtasks(parent_id, page_size=100)
DefaultPageSize == 100

\* append_children: Notion's limit of blocks per request
NotionLimit == 100

\* an absent id (None): no parent block, no after anchor, a block without id
NoId == 0
\* the to_do block every behaviour starts with (its parent is a page)
Root == NoId + 1
\* the id ranges are spaced so that they never overlap:
\* ids the caller's blocks may carry
InputBase == 2 * NotionLimit
\* id of the block the remote parent already holds
AnchorId == 5 * NotionLimit
\* first id the remote service gives to an appended block
FirstRid == AnchorId + 1
\* ids of the paragraph blocks a parent may already hold
FillerBase == 10 * NotionLimit

Min(a, b) == IF a < b THEN a ELSE b

(***************************************************************************)
(* State                                                                   *)
(***************************************************************************)
VARIABLES
    blocks,     \* remote store: block id -> [type, checked, is_subtask, parent]
    children,   \* remote store: block id -> sequence of child ids, in order
    nextId,     \* next id the remote service hands out
    call,       \* client -> the call it is in or has just finished
    crossed,    \* client -> a sibling was written since its get_subtasks
    lastWriter, \* client whose update_subtask_status wrote the parent last
    api,        \* the append_children / PagesAPI call in progress or just finished
    requests,   \* every HTTP request sent so far, in order
    remote,     \* children of the parent block on the remote side, in order
    nextRid,    \* next id the remote service gives to an appended block
    page,       \* the page on the remote side
    rt,         \* the with_retry wrapper: wrapped handler, arguments, position
    outcomes,   \* how each attempt of the wrapped handler ended, in order
    slept,      \* the delays the wrapper has slept, in order
    doc,        \* the markdown conversion: input, parsed blocks, serialized text
    server      \* NotionServer: client, the three API objects, ensure_client's position

storeVars == <<blocks, children, nextId>>
treeVars == <<blocks, children, nextId, call, crossed, lastWriter>>
apiVars == <<api, requests, remote, nextRid, page>>
retryVars == <<rt, outcomes, slept>>
vars == <<blocks, children, nextId, call, crossed, lastWriter,
          api, requests, remote, nextRid, page, rt, outcomes, slept, doc,
          server>>
\* what the actions of one part leave alone
notTree == <<apiVars, retryVars, doc, server>>
notApi == <<treeVars, retryVars, doc, server>>
notRetry == <<treeVars, apiVars, doc, server>>
notDoc == <<treeVars, apiVars, retryVars, server>>
notServer == <<treeVars, apiVars, retryVars, doc>>

Clients == {1, 2}
MainClient == CHOOSE c \in Clients : \A d \in Clients : c <= d

Block(type, checked, is_subtask, parent) ==
    [type |-> type, checked |-> checked, is_subtask |-> is_subtask, parent |-> parent]

\* a remote call of a BlocksAPI operation: GET/PATCH of blocks/{id} or of
\* blocks/{id}/children
RemoteCall(method, path, id) == [method |-> method, path |-> path, id |-> id]

\* the text a caller passes as content: empty or not
Contents == {"", "task"}

IdleCall ==
    [op |-> "none", pc |-> "idle", id |-> NoId, content |-> "", checked |-> FALSE,
     update_parent |-> FALSE, parent_id |-> NoId, all_checked |-> FALSE,
     ret |-> "none", sent |-> << >>, subtasks |-> << >>]

Running(c) == call[c].pc \notin {"idle", "done", "raised"}

\* the blocks the calls address (the paragraph fillers are never addressed)
Targets == {b \in DOMAIN blocks : b < FillerBase}

(***************************************************************************)
(* The remote service                                                      *)
(***************************************************************************)
\* GET blocks/{id}/children?page_size=n : one page of children
GetBlockChildren(block_id, page_size) ==
    [results  |-> SubSeq(children[block_id], 1, Min(page_size, Len(children[block_id]))),
     has_more |-> Len(children[block_id]) > page_size]

IsSubtaskBlock(b) == blocks[b].type = "to_do" /\ blocks[b].is_subtask

\* BlocksAPI.get_subtasks: the subtasks among the first page of children
GetSubtasks(parent_id, page_size) ==
    SelectSeq(GetBlockChildren(parent_id, page_size).results, IsSubtaskBlock)

AnyChecked(siblings) == \E i \in 1..Len(siblings) : blocks[siblings[i]].checked

\* all(s["to_do"]["checked"] for s in siblings)
AllChecked(siblings) == \A i \in 1..Len(siblings) : blocks[siblings[i]].checked

\* every direct child of p that is a to_do flagged is_subtask
DirectSubtasks(p) ==
    {children[p][i] : i \in {j \in 1..Len(children[p]) : IsSubtaskBlock(children[p][j])}}

\* the clients that hold a sibling list of parent p fetched before this write
Holders(c, p) ==
    {d \in Clients \ {c} : call[d].pc = "uss_parent" /\ call[d].parent_id = p}

(***************************************************************************)
(* Initial states                                                          *)
(***************************************************************************)
Fillers(n) == [k \in 1..n |-> FillerBase + k]

InitStore(nfill, rootChecked) ==
    /\ blocks = [b \in {Root} \cup {FillerBase + k : k \in 1..nfill} |->
                    IF b = Root THEN Block("to_do", rootChecked, FALSE, NoId)
                    ELSE Block("paragraph", FALSE, FALSE, Root)]
    /\ children = [b \in {Root} \cup {FillerBase + k : k \in 1..nfill} |->
                    IF b = Root THEN Fillers(nfill) ELSE << >>]
    /\ nextId = Root + 1

InitClients ==
    /\ call = [c \in Clients |-> IdleCall]
    /\ crossed = [c \in Clients |-> FALSE]
    /\ lastWriter = NoId

\* the call record: arguments, locals of append_children, position, outcome
IdleApi ==
    [op |-> "none", pc |-> "idle", blocks |-> << >>, arg_after |-> NoId,
     after |-> NoId, batch_size |-> 0, i |-> 0, results |-> << >>,
     chunked |-> FALSE, properties |-> "None", archived |-> "None",
     page_size |-> 0, ret |-> "none"]

InitialRemote == <<[id |-> AnchorId, content |-> 0]>>
InitialPage == [archived |-> FALSE, properties |-> "P0"]

\* the remote parent holds one block and the page is live
InitApi ==
    /\ api = IdleApi
    /\ requests = << >>
    /\ remote = InitialRemote
    /\ nextRid = FirstRid
    /\ page = InitialPage

IdleRetry ==
    [func |-> "none", pc |-> "idle", page_size |-> 0, date_ok |-> TRUE,
     has_self |-> FALSE, attempt |-> 0, last_error |-> "None", ret |-> "none"]

InitRetry ==
    /\ rt = IdleRetry
    /\ outcomes = << >>
    /\ slept = << >>

\* extra_props of create_block
NoProps ==
    [has_language |-> FALSE, language |-> << >>, has_checked |-> FALSE, checked |-> FALSE]

\* no conversion has been asked for
IdleDoc ==
    [pc |-> "idle", given |-> "none", markdown |-> << >>, blocks |-> << >>,
     error |-> "none", output |-> << >>, numbers |-> << >>,
     block_type |-> "none", absent |-> FALSE, content |-> << >>,
     extra_props |-> NoProps, rich_text |-> << >>,
     todo |-> << >>, properties |-> << >>, todo_back |-> << >>,
     reparsed |-> << >>]

InitDoc == doc = IdleDoc

\* no client: self.client = None
NoClient == 0

\* NotionServer.__init__: no client and no API objects; an API object is
\* recorded by the client it is bound to
NewServer ==
    [client |-> NoClient, closed |-> {}, pages_api |-> NoClient,
     databases_api |-> NoClient, blocks_api |-> NoClient,
     pc |-> "idle", attempt |-> 0, created |-> 0, ensures |-> 0]

InitServer == server = NewServer

Init ==
    /\ \E nfill \in {0, DefaultPageSize}, rootChecked \in BOOLEAN :
           InitStore(nfill, rootChecked)
    /\ InitClients
    /\ InitApi
    /\ InitRetry
    /\ InitServer
    /\ InitDoc

(***************************************************************************)
(* BlocksAPI operations on the block tree                                  *)
(***************************************************************************)
Finished(c, op, id, checked, update_parent, pc, ret, sent) ==
    [IdleCall EXCEPT !.op = op, !.pc = pc, !.id = id, !.checked = checked,
                     !.update_parent = update_parent, !.ret = ret, !.sent = sent]

\* a write of a block's checked flag reaches every client that holds a
\* sibling list of the block's parent
Cross(c, b) ==
    [d \in Clients |-> IF d \in Holders(c, blocks[b].parent) THEN TRUE ELSE crossed[d]]

\* BlocksAPI.create_block for a rich text block: the content, empty or not,
\* becomes the block's text and the keyword arguments are merged in; nothing
\* is validated
ApiCreateBlock(block_type, content, checked, is_subtask) ==
    [type |-> block_type, content |-> content, checked |-> checked,
     is_subtask |-> is_subtask]

\* BlocksAPI.create_todo_block
ApiCreateTodoBlock(content, checked, is_subtask) ==
    ApiCreateBlock("to_do", content, checked, is_subtask)

\* BlocksAPI.create_subtask: create_todo_block(is_subtask=True), then one
\* append_children request under parent_id
CreateSubtask(c, parent_id, content, checked, ok) ==
    /\ ~Running(c)
    /\ parent_id \in Targets
    /\ nextId <= Root + MaxCreated
    /\ LET subtask == ApiCreateTodoBlock(content, checked, TRUE)
           sent == <<RemoteCall("PATCH", "children", parent_id)>>
       IN  IF ok
           THEN /\ blocks' = blocks @@
                       (nextId :> Block(subtask.type, subtask.checked,
                                        subtask.is_subtask, parent_id))
                /\ children' = [children EXCEPT ![parent_id] = Append(@, nextId)]
                                   @@ (nextId :> << >>)
                /\ nextId' = nextId + 1
                /\ call' = [call EXCEPT ![c] =
                       [Finished(c, "create_subtask", parent_id, checked, FALSE,
                                 "done", "response", sent)
                           EXCEPT !.content = content]]
                /\ crossed' = [d \in Clients |->
                       IF d \in Holders(c, parent_id) THEN TRUE ELSE crossed[d]]
           ELSE /\ UNCHANGED <<storeVars, crossed>>
                /\ call' = [call EXCEPT ![c] =
                       [Finished(c, "create_subtask", parent_id, checked, FALSE,
                                 "raised", "error", sent)
                           EXCEPT !.content = content]]
    /\ UNCHANGED lastWriter
    /\ UNCHANGED notTree

\* the page sizes a caller passes to get_subtasks
PageSizes == {1, DefaultPageSize}

\* BlocksAPI.get_subtasks called by a client: one get_block_children request,
\* the filtered results are returned
GetSubtasksCall(c, parent_id, page_size, ok) ==
    /\ ~Running(c)
    /\ parent_id \in Targets
    /\ LET sent == <<RemoteCall("GET", "children", parent_id)>>
       IN  call' = [call EXCEPT ![c] =
               IF ok
               THEN [Finished(c, "get_subtasks", parent_id, FALSE, FALSE,
                              "done", "subtasks", sent)
                        EXCEPT !.subtasks = GetSubtasks(parent_id, page_size)]
               ELSE Finished(c, "get_subtasks", parent_id, FALSE, FALSE,
                             "raised", "error", sent)]
    /\ UNCHANGED <<storeVars, crossed, lastWriter>>
    /\ UNCHANGED notTree

\* BlocksAPI.get_block: one GET of blocks/{id}, the block is returned
GetBlockCall(c, block_id, ok) ==
    /\ ~Running(c)
    /\ block_id \in Targets
    /\ call' = [call EXCEPT ![c] =
           Finished(c, "get_block", block_id, FALSE, FALSE,
                    IF ok THEN "done" ELSE "raised", IF ok THEN "block" ELSE "error",
                    <<RemoteCall("GET", "block", block_id)>>)]
    /\ UNCHANGED <<storeVars, crossed, lastWriter>>
    /\ UNCHANGED notTree

\* BlocksAPI.get_block_children: one GET of blocks/{id}/children, the page is
\* returned
GetBlockChildrenCall(c, block_id, page_size, ok) ==
    /\ ~Running(c)
    /\ block_id \in Targets
    /\ page_size \in PageSizes
    /\ call' = [call EXCEPT ![c] =
           Finished(c, "get_block_children", block_id, FALSE, FALSE,
                    IF ok THEN "done" ELSE "raised", IF ok THEN "page" ELSE "error",
                    <<RemoteCall("GET", "children", block_id)>>)]
    /\ UNCHANGED <<storeVars, crossed, lastWriter>>
    /\ UNCHANGED notTree

\* BlocksAPI.append_children with one unchecked to_do block that carries no
\* is_subtask: one PATCH of
\* blocks/{id}/children, the new block becomes the last child
AppendChildrenCall(c, parent_id, ok) ==
    /\ ~Running(c)
    /\ parent_id \in Targets
    /\ nextId <= Root + MaxCreated
    /\ LET sent == <<RemoteCall("PATCH", "children", parent_id)>>
       IN  IF ok
           THEN /\ blocks' = blocks @@
                       (nextId :> Block("to_do", FALSE, FALSE, parent_id))
                /\ children' = [children EXCEPT ![parent_id] = Append(@, nextId)]
                                   @@ (nextId :> << >>)
                /\ nextId' = nextId + 1
                /\ call' = [call EXCEPT ![c] =
                       Finished(c, "append_children", parent_id, FALSE, FALSE,
                                "done", "response", sent)]
           ELSE /\ UNCHANGED storeVars
                /\ call' = [call EXCEPT ![c] =
                       Finished(c, "append_children", parent_id, FALSE, FALSE,
                                "raised", "error", sent)]
    /\ UNCHANGED <<crossed, lastWriter>>
    /\ UNCHANGED notTree

PatchCheckedCascading(block_id, v) ==
    [b \in DOMAIN blocks |->
        IF b \in {block_id, blocks[block_id].parent}
        THEN [blocks[b] EXCEPT !.checked = v] ELSE blocks[b]]

\* PATCH blocks/{id} with {"to_do": {"checked": v}}
PatchChecked(block_id, v) == [blocks EXCEPT ![block_id].checked = v]

\* BlocksAPI.update_block: one PATCH, the response is returned
UpdateBlock(c, block_id, checked, ok) ==
    /\ ~Running(c)
    /\ block_id \in Targets
    /\ IF ok
       THEN /\ blocks' = PatchChecked(block_id, checked)
            /\ crossed' = Cross(c, block_id)
            /\ call' = [call EXCEPT ![c] =
                   Finished(c, "update_block", block_id, checked, FALSE, "done", "response",
                            <<RemoteCall("PATCH", "block", block_id)>>)]
       ELSE /\ UNCHANGED <<blocks, crossed>>
            /\ call' = [call EXCEPT ![c] =
                   Finished(c, "update_block", block_id, checked, FALSE, "raised", "error",
                            <<RemoteCall("PATCH", "block", block_id)>>)]
    /\ UNCHANGED <<children, nextId, lastWriter>>
    /\ UNCHANGED notTree

\* the remote call r of client c failed: the error leaves the operation
Raise(c, r) ==
    [call EXCEPT ![c].pc = "raised", ![c].ret = "error", ![c].sent = Append(@, r)]

\* the remote call r of client c succeeded
Sent(c, r) == Append(call[c].sent, r)

UpdateParentIgnored(c) == "uss_get"

\* if update_parent: ... else: return await self.get_block(subtask_id)
AfterUpdate(c) == IF call[c].update_parent THEN "uss_get" ELSE "uss_refetch"

\* BlocksAPI.update_subtask_status, entry
UssBegin(c, subtask_id, checked, update_parent) ==
    /\ ~Running(c)
    /\ subtask_id \in Targets
    /\ call' = [call EXCEPT ![c] =
           [IdleCall EXCEPT !.op = "update_subtask_status", !.pc = "uss_update",
                            !.id = subtask_id, !.checked = checked,
                            !.update_parent = update_parent]]
    /\ UNCHANGED <<storeVars, crossed, lastWriter>>
    /\ UNCHANGED notTree

\* await self.update_block(subtask_id, {"to_do": {"checked": checked}})
UssUpdate(c, ok) ==
    /\ call[c].pc = "uss_update"
    /\ IF ok
       THEN /\ blocks' = PatchChecked(call[c].id, call[c].checked)
            /\ crossed' = Cross(c, call[c].id)
            /\ call' = [call EXCEPT
                   ![c].pc = AfterUpdate(c),
                   ![c].sent = Sent(c, RemoteCall("PATCH", "block", call[c].id))]
       ELSE /\ UNCHANGED <<blocks, crossed>>
            /\ call' = Raise(c, RemoteCall("PATCH", "block", call[c].id))
    /\ UNCHANGED <<children, nextId, lastWriter>>
    /\ UNCHANGED notTree

\* subtask = await self.get_block(subtask_id);
\* if parent_id := subtask.get("parent", {}).get("block_id")
UssGet(c, ok) ==
    /\ call[c].pc = "uss_get"
    /\ IF ok
       THEN call' = [call EXCEPT
                ![c].parent_id = blocks[call[c].id].parent,
                ![c].pc = IF blocks[call[c].id].parent # NoId
                          THEN "uss_siblings" ELSE "uss_refetch",
                ![c].sent = Sent(c, RemoteCall("GET", "block", call[c].id))]
       ELSE call' = Raise(c, RemoteCall("GET", "block", call[c].id))
    /\ UNCHANGED <<storeVars, crossed, lastWriter>>
    /\ UNCHANGED notTree

\* siblings = await self.get_subtasks(parent_id);
\* all_checked = all(s["to_do"]["checked"] for s in siblings)
UssSiblings(c, ok) ==
    /\ call[c].pc = "uss_siblings"
    /\ IF ok
       THEN /\ call' = [call EXCEPT
                ![c].all_checked =
                    AllChecked(GetSubtasks(call[c].parent_id, DefaultPageSize)),
                ![c].pc = "uss_parent",
                ![c].sent = Sent(c, RemoteCall("GET", "children", call[c].parent_id))]
            /\ crossed' = [crossed EXCEPT ![c] = FALSE]
       ELSE /\ call' = Raise(c, RemoteCall("GET", "children", call[c].parent_id))
            /\ UNCHANGED crossed
    /\ UNCHANGED <<storeVars, lastWriter>>
    /\ UNCHANGED notTree

SubtaskValue(c) == call[c].checked

\* the value update_subtask_status writes to the parent
ParentValue(c) == call[c].all_checked

\* response = await self.update_block(parent_id, {"to_do": {"checked": all_checked}});
\* return response
UssParent(c, ok) ==
    /\ call[c].pc = "uss_parent"
    /\ IF ok
       THEN /\ blocks' = PatchChecked(call[c].parent_id, ParentValue(c))
            /\ crossed' = Cross(c, call[c].parent_id)
            /\ lastWriter' = c
            /\ call' = [call EXCEPT
                   ![c].pc = "done", ![c].ret = "parent_response",
                   ![c].sent = Sent(c, RemoteCall("PATCH", "block", call[c].parent_id))]
       ELSE /\ UNCHANGED <<blocks, crossed, lastWriter>>
            /\ call' = Raise(c, RemoteCall("PATCH", "block", call[c].parent_id))
    /\ UNCHANGED <<children, nextId>>
    /\ UNCHANGED notTree

\* return await self.get_block(subtask_id)
UssRefetch(c, ok) ==
    /\ call[c].pc = "uss_refetch"
    /\ call' = IF ok
               THEN [call EXCEPT
                        ![c].pc = "done", ![c].ret = "subtask",
                        ![c].sent = Sent(c, RemoteCall("GET", "block", call[c].id))]
               ELSE Raise(c, RemoteCall("GET", "block", call[c].id))
    /\ UNCHANGED <<storeVars, crossed, lastWriter>>
    /\ UNCHANGED notTree

(***************************************************************************)
(* Specifications of the block tree                                        *)
(***************************************************************************)
\* serial execution: one flow of control issues the calls one after another
Next ==
    \E c \in {MainClient} :
        \/ \E p \in Targets, t \in Contents, v \in BOOLEAN, ok \in BOOLEAN :
               CreateSubtask(c, p, t, v, ok)
        \/ \E b \in Targets, v \in BOOLEAN, ok \in BOOLEAN : UpdateBlock(c, b, v, ok)
        \/ \E p \in Targets, n \in PageSizes, ok \in BOOLEAN :
               GetSubtasksCall(c, p, n, ok)
        \/ \E s \in Targets, v \in BOOLEAN, u \in BOOLEAN : UssBegin(c, s, v, u)
        \/ \E ok \in BOOLEAN : UssUpdate(c, ok)
        \/ \E ok \in BOOLEAN : UssGet(c, ok)
        \/ \E ok \in BOOLEAN : UssSiblings(c, ok)
        \/ \E ok \in BOOLEAN : UssParent(c, ok)
        \/ \E ok \in BOOLEAN : UssRefetch(c, ok)

Spec == Init /\ [][Next]_vars

\* serial execution of every BlocksAPI operation that reads or writes the
\* block tree, on a tree that starts as one to_do block
InitTree ==
    /\ \E rootChecked \in BOOLEAN : InitStore(0, rootChecked)
    /\ InitClients
    /\ InitApi
    /\ InitRetry
    /\ InitServer
    /\ InitDoc

NextTree ==
    \E c \in {MainClient} :
        \/ \E p \in Targets, t \in Contents, v \in BOOLEAN, ok \in BOOLEAN :
               CreateSubtask(c, p, t, v, ok)
        \/ \E b \in Targets, v \in BOOLEAN, ok \in BOOLEAN : UpdateBlock(c, b, v, ok)
        \/ \E p \in Targets, n \in PageSizes, ok \in BOOLEAN :
               GetSubtasksCall(c, p, n, ok)
        \/ \E b \in Targets, ok \in BOOLEAN : GetBlockCall(c, b, ok)
        \/ \E b \in Targets, n \in PageSizes, ok \in BOOLEAN :
               GetBlockChildrenCall(c, b, n, ok)
        \/ \E p \in Targets, ok \in BOOLEAN : AppendChildrenCall(c, p, ok)
        \/ \E s \in Targets, v \in BOOLEAN, u \in BOOLEAN : UssBegin(c, s, v, u)
        \/ \E ok \in BOOLEAN : UssUpdate(c, ok)
        \/ \E ok \in BOOLEAN : UssGet(c, ok)
        \/ \E ok \in BOOLEAN : UssSiblings(c, ok)
        \/ \E ok \in BOOLEAN : UssParent(c, ok)
        \/ \E ok \in BOOLEAN : UssRefetch(c, ok)

SpecTree == InitTree /\ [][NextTree]_vars

\* two clients call update_subtask_status on a parent that has two subtasks
InitFamily ==
    /\ \E c2 \in BOOLEAN, c3 \in BOOLEAN :
        /\ blocks = (Root :> Block("to_do", c2 /\ c3, FALSE, NoId))
                    @@ (2 :> Block("to_do", c2, TRUE, Root))
                    @@ (3 :> Block("to_do", c3, TRUE, Root))
        /\ children = (Root :> <<2, 3>>) @@ (2 :> << >>) @@ (3 :> << >>)
        /\ nextId = 4
    /\ InitClients
    /\ InitApi
    /\ InitRetry
    /\ InitServer
    /\ InitDoc

NextConc ==
    \E c \in Clients :
        \/ \E s \in Targets, v \in BOOLEAN, u \in BOOLEAN : UssBegin(c, s, v, u)
        \/ \E ok \in BOOLEAN : UssUpdate(c, ok)
        \/ \E ok \in BOOLEAN : UssGet(c, ok)
        \/ \E ok \in BOOLEAN : UssSiblings(c, ok)
        \/ \E ok \in BOOLEAN : UssParent(c, ok)
        \/ \E ok \in BOOLEAN : UssRefetch(c, ok)

SpecConc == InitFamily /\ [][NextConc]_vars

(***************************************************************************)
(* Properties of the subtask aggregation                                   *)
(***************************************************************************)
AndOfSubtasks(p) == \A s \in DirectSubtasks(p) : blocks[s].checked

\* the call of client c was update_subtask_status(update_parent=True) and it
\* returned the parent's update response
AggregatedBy(c) ==
    /\ call[c].op = "update_subtask_status"
    /\ call[c].pc = "done"
    /\ call[c].update_parent
    /\ call[c].ret = "parent_response"

\* C1: in a serial execution, once update_subtask_status(s, v, update_parent=True)
\* has completed on a subtask s of a to_do parent P, P.checked is the AND of the
\* checked flags of all direct subtask children of P.
C1_ParentIsAndOfAllSubtasks ==
    (AggregatedBy(MainClient) /\ IsSubtaskBlock(call[MainClient].id)
        /\ blocks[call[MainClient].parent_id].type = "to_do")
    => (blocks[call[MainClient].parent_id].checked
            = AndOfSubtasks(call[MainClient].parent_id))

\* C2 (as stated): in every quiescent state of a serial execution, a to_do
\* parent with at least one direct subtask has checked = AND of its subtasks.
C2_AggregateInEveryQuiescentState ==
    ~Running(MainClient) =>
        \A p \in Targets :
            (blocks[p].type = "to_do" /\ DirectSubtasks(p) # {})
                => blocks[p].checked = AndOfSubtasks(p)

\* the step changes checked of block b through a call addressed to b
WrittenExplicitly(b) ==
    \E c \in Clients :
        \/ ~Running(c) /\ call'[c].op = "update_block" /\ call'[c].pc = "done"
              /\ call'[c].id = b
        \/ call[c].pc = "uss_update" /\ call[c].id = b
        \/ call[c].pc = "uss_parent" /\ call[c].parent_id = b

\* C2 (amended): only update_subtask_status(update_parent=True) recomputes a
\* parent.  When it returns the parent's update response, the parent's checked
\* is the AND over the subtasks get_subtasks returns; create_subtask changes no
\* existing block and update_block only the block it addresses.
C2_OnlyStatusUpdateRecomputes ==
    [][ /\ (Running(MainClient) /\ AggregatedBy(MainClient)')
            => (blocks[call[MainClient].parent_id].checked
                  = AllChecked(GetSubtasks(call[MainClient].parent_id, DefaultPageSize)))'
        /\ \A b \in DOMAIN blocks :
              blocks'[b].checked # blocks[b].checked => WrittenExplicitly(b)
      ]_vars

\* a parent aggregate was written while its parent holds several subtasks that
\* do not all agree
C2_Witness ==
    /\ AggregatedBy(MainClient)
    /\ \E s \in DirectSubtasks(call[MainClient].parent_id) :
          blocks[s].checked # call[MainClient].checked
    /\ ~blocks[call[MainClient].parent_id].checked

\* C3: two update_subtask_status(update_parent=True) calls on siblings are not
\* transactional.  After both have returned the parent's update response the
\* parent may differ from the AND of its subtasks (C3_Witness), and it does so
\* only when the call that wrote the parent last had a sibling written between
\* its get_subtasks and its parent update.
C3_StaleOnlyByInterleaving ==
    ((\A c \in Clients : AggregatedBy(c) /\ call[c].parent_id = Root)
        /\ blocks[Root].checked # AndOfSubtasks(Root))
    => (lastWriter # NoId /\ crossed[lastWriter])

\* both calls are finished and the parent holds a stale aggregate
C3_Witness ==
    /\ \A c \in Clients : AggregatedBy(c) /\ call[c].parent_id = Root
    /\ call[1].id # call[2].id
    /\ blocks[Root].checked # AndOfSubtasks(Root)
    /\ crossed[lastWriter]

(***************************************************************************)
(* BlocksAPI.append_children and the PagesAPI calls, request by request    *)
(***************************************************************************)
InputBlock(k, withId) == [id |-> IF withId THEN InputBase + k ELSE NoId, content |-> k]

\* short lists whose blocks carry an id or not, and long lists around the limit
InputLists ==
    UNION {{[k \in 1..n |-> InputBlock(k, k \in S)] : S \in SUBSET (1..n)} : n \in 0..MaxBlocks}
    \cup {[k \in 1..n |-> InputBlock(k, TRUE)] :
             n \in {NotionLimit, NotionLimit + 1, NotionLimit + 50}}

BatchSizes == {-1, 0, 1, 2, NotionLimit, NotionLimit + 1}

\* ok: applied and answered 2xx; status: answered non-2xx, not applied;
\* lost: transport error, not applied; late: applied, the response never arrives
Outcomes == {"ok", "status", "lost", "late"}
Applied(outcome) == outcome \in {"ok", "late"}
ErrorOf(outcome) == IF outcome = "status" THEN "HTTPStatusError" ELSE "RequestError"

Request(method, path, kids, after, body) ==
    [method |-> method, path |-> path, children |-> kids, after |-> after, body |-> body]

\* the remote service stores the children under ids of its own
Stored(chunk) == [k \in 1..Len(chunk) |-> [id |-> nextRid + k - 1, content |-> chunk[k].content]]

\* the children go right after the anchor, or to the end without one
Insert(seq, new, after) ==
    IF after # NoId /\ \E j \in 1..Len(seq) : seq[j].id = after
    THEN LET j == CHOOSE j \in 1..Len(seq) : seq[j].id = after
         IN  SubSeq(seq, 1, j) \o new \o SubSeq(seq, j + 1, Len(seq))
    ELSE seq \o new

\* append_children, up to the first request:
\* if batch_size > 100: raise ValueError; if len(blocks) > batch_size: chunk
AcStart(blks, after, batch_size) ==
    LET base == [IdleApi EXCEPT !.op = "append_children", !.blocks = blks,
                                !.arg_after = after, !.after = after,
                                !.batch_size = batch_size]
    IN  IF batch_size > NotionLimit
        THEN [base EXCEPT !.pc = "raised", !.ret = "ValueError"]
        ELSE IF Len(blks) > batch_size
        THEN IF batch_size = 0
             \* range(0, len(blocks), 0)
             THEN [base EXCEPT !.pc = "raised", !.ret = "ValueError"]
             ELSE IF batch_size < 0
             \* range(0, len(blocks), batch_size) is empty
             THEN [base EXCEPT !.pc = "done", !.ret = "list", !.chunked = TRUE]
             ELSE [base EXCEPT !.pc = "ac_send", !.chunked = TRUE]
        ELSE [base EXCEPT !.pc = "ac_send"]

\* BlocksAPI.append_children called directly
AcBegin(blks, after, batch_size) ==
    /\ api.pc = "idle"
    /\ api' = AcStart(blks, after, batch_size)
    /\ UNCHANGED <<requests, remote, nextRid, page>>
    /\ UNCHANGED notApi

BatchAfterFromResponse(i) == api.after

\* batch_after = after if i == 0 else blocks[i - 1].get("id")
BatchAfter(i) == IF i = 0 THEN api.after ELSE api.blocks[i].id

\* batch = blocks[i:i + batch_size]
Batch(i) == SubSeq(api.blocks, i + 1, Min(i + api.batch_size, Len(api.blocks)))

\* self._client.patch(f"blocks/{block_id}/children", json={"children": ..., "after": ...})
AcSend ==
    /\ api.pc = "ac_send"
    /\ requests' = Append(requests,
          IF api.chunked
          THEN Request("PATCH", "blocks/children", Batch(api.i), BatchAfter(api.i), "none")
          ELSE Request("PATCH", "blocks/children", api.blocks, api.after, "none"))
    /\ api' = [api EXCEPT !.pc = "ac_wait"]
    /\ UNCHANGED <<remote, nextRid, page>>
    /\ UNCHANGED notApi

AfterChunkEarly(i) == IF i + api.batch_size <= Len(api.blocks) THEN "ac_send" ELSE "done"

\* the loop goes on after a chunk was answered
AfterChunk(i) == IF i < Len(api.blocks) THEN "ac_send" ELSE "done"

AfterChunkSwallowed(outcome) == AfterChunk(api.i + api.batch_size)

\* raise_for_status() / the transport raises: the exception leaves the loop
AfterChunkFailed(outcome) == "raised"

\* response.raise_for_status(); result = response.json(); results.append(result);
\* if result["results"]: after = result["results"][-1]["id"]
AcRespond(outcome) ==
    /\ api.pc = "ac_wait"
    /\ LET req == requests[Len(requests)]
           stored == Stored(req.children)
           result == [k \in 1..Len(stored) |-> stored[k].id]
       IN  /\ IF Applied(outcome)
              THEN /\ remote' = Insert(remote, stored, req.after)
                   /\ nextRid' = nextRid + Len(stored)
              ELSE UNCHANGED <<remote, nextRid>>
           /\ api' =
                IF outcome = "ok"
                THEN IF api.chunked
                     THEN [api EXCEPT
                              !.results = Append(@, result),
                              !.after = IF Len(result) > 0 THEN result[Len(result)] ELSE @,
                              !.i = @ + api.batch_size,
                              !.pc = AfterChunk(api.i + api.batch_size),
                              !.ret = IF AfterChunk(api.i + api.batch_size) = "done"
                                      THEN "list" ELSE @]
                     ELSE [api EXCEPT !.results = <<result>>, !.pc = "done", !.ret = "dict"]
                ELSE [api EXCEPT !.pc = AfterChunkFailed(outcome), !.ret = ErrorOf(outcome)]
    /\ UNCHANGED <<requests, page>>
    /\ UNCHANGED notApi

\* PagesAPI.update_page: if properties is None and archived is None: raise ValueError
UpdatePageValid(properties, archived) == ~(properties = "None" /\ archived = "None")

PageBodyWithAllKeys(properties, archived) ==
    [properties |-> properties, archived |-> archived]

\* body = {}; if properties: body["properties"] = properties;
\* if archived is not None: body["archived"] = archived
PageBody(properties, archived) ==
    [properties |-> IF properties \in {"None", "Empty"} THEN "absent" ELSE properties,
     archived |-> IF archived = "None" THEN "absent" ELSE archived]

\* the body of PagesAPI.update_page(page_id, properties, archived), called
\* as operation op
PatchPage(op, properties, archived, outcome) ==
    /\ LET base == [IdleApi EXCEPT !.op = op, !.properties = properties,
                                   !.archived = archived]
           body == PageBody(properties, archived)
       IN  IF ~UpdatePageValid(properties, archived)
           THEN /\ api' = [base EXCEPT !.pc = "raised", !.ret = "ValueError"]
                /\ UNCHANGED <<requests, page>>
           ELSE /\ requests' = Append(requests, Request("PATCH", "pages", << >>, NoId, body))
                /\ page' = IF Applied(outcome)
                           THEN [properties |-> IF body.properties = "absent"
                                                THEN page.properties ELSE body.properties,
                                 archived |-> IF body.archived = "absent"
                                              THEN page.archived ELSE body.archived = "True"]
                           ELSE page
                /\ api' = IF outcome = "ok"
                          THEN [base EXCEPT !.pc = "done", !.ret = "dict"]
                          ELSE [base EXCEPT !.pc = "raised", !.ret = ErrorOf(outcome)]
    /\ UNCHANGED <<remote, nextRid>>
    /\ UNCHANGED notApi

\* PagesAPI.update_page(page_id, properties, archived)
UpdatePage(properties, archived, outcome) ==
    /\ api.pc = "idle"
    /\ PatchPage("update_page", properties, archived, outcome)

PageSizeNotNegative(page_size) == page_size >= 0

\* PagesAPI.get_property_item: if page_size <= 0: raise ValueError
PageSizeValid(page_size) == page_size > 0

\* PagesAPI.get_property_item(page_id, property_id, page_size)
GetPropertyItem(page_size, outcome) ==
    /\ api.pc = "idle"
    /\ LET base == [IdleApi EXCEPT !.op = "get_property_item", !.page_size = page_size]
       IN  IF ~PageSizeValid(page_size)
           THEN /\ api' = [base EXCEPT !.pc = "raised", !.ret = "ValueError"]
                /\ UNCHANGED requests
           ELSE /\ requests' = Append(requests,
                       Request("GET", "pages/properties", << >>, NoId, page_size))
                /\ api' = IF outcome = "ok"
                          THEN [base EXCEPT !.pc = "done", !.ret = "dict"]
                          ELSE [base EXCEPT !.pc = "raised", !.ret = ErrorOf(outcome)]
    /\ UNCHANGED <<remote, nextRid, page>>
    /\ UNCHANGED notApi

NextApi ==
    \/ \E blks \in InputLists, after \in {NoId, AnchorId}, b \in BatchSizes :
          AcBegin(blks, after, b)
    \/ AcSend
    \/ \E outcome \in Outcomes : AcRespond(outcome)
    \/ \E properties \in {"None", "Empty", "P1"}, archived \in {"None", "True", "False"},
          outcome \in Outcomes : UpdatePage(properties, archived, outcome)
    \/ \E page_size \in {-1, 0, 1, DefaultPageSize}, outcome \in Outcomes :
          GetPropertyItem(page_size, outcome)

\* one call against a remote parent that holds one block and a live page
InitOneCall ==
    /\ InitStore(0, FALSE)
    /\ InitClients
    /\ InitApi
    /\ InitRetry
    /\ InitServer
    /\ InitDoc

SpecApi == InitOneCall /\ [][NextApi]_vars

(***************************************************************************)
(* Properties of append_children and of the input validation               *)
(***************************************************************************)
RECURSIVE Flatten(_)
\* the children arrays of a sequence of requests, concatenated
Flatten(reqs) ==
    IF reqs = << >> THEN << >>
    ELSE IF Len(reqs) = 1 THEN reqs[1].children
    ELSE Flatten(SubSeq(reqs, 1, Len(reqs) \div 2))
             \o Flatten(SubSeq(reqs, Len(reqs) \div 2 + 1, Len(reqs)))

Ceil(n, b) == (n + b - 1) \div b

Appending == api.op = "append_children"
InRange(b) == 1 <= b /\ b <= NotionLimit

\* C4: for 1 <= batch_size <= 100 a finished append_children has sent one
\* request if n <= batch_size and ceil(n / batch_size) requests otherwise; every
\* chunk but the last holds batch_size blocks, the children arrays concatenated
\* in issue order are the input list, and the call returns the list of the
\* responses in request order when chunked and the single response otherwise.
C4_ChunksPartitionTheInput ==
    (Appending /\ api.pc = "done" /\ InRange(api.batch_size)) =>
        LET n == Len(api.blocks)
            b == api.batch_size
        IN  /\ Len(requests) = IF n <= b THEN 1 ELSE Ceil(n, b)
            /\ \A k \in 1..(Len(requests) - 1) : Len(requests[k].children) = b
            /\ Flatten(requests) = api.blocks
            /\ api.ret = IF n > b THEN "list" ELSE "dict"
            /\ Len(api.results) = Len(requests)
            /\ \A k \in 1..Len(requests) :
                  /\ Len(api.results[k]) = Len(requests[k].children)
                  /\ \A m \in 1..(k - 1) : \A x \in 1..Len(api.results[m]) :
                        \A y \in 1..Len(api.results[k]) :
                            api.results[m][x] < api.results[k][y]

\* a chunked append has finished whose last chunk is shorter than the others
C4_Witness ==
    /\ Appending /\ api.pc = "done" /\ api.chunked
    /\ InRange(api.batch_size)
    /\ Len(requests) >= 2
    /\ Len(requests[Len(requests)].children) < api.batch_size

Committed(m) == \A x \in 1..m : \E j \in 1..Len(remote) : remote[j].content = x

\* C6: the chunk requests go out one at a time, each after the previous one
\* was answered successfully; when chunk k fails the call raises, no later
\* chunk is sent, and the chunks before k stay on the remote side (no DELETE).
C6_SequentialNoRollback ==
    (Appending /\ api.chunked) =>
        /\ Len(requests) = Len(api.results)
              + (IF api.pc = "ac_wait"
                    \/ (api.pc = "raised" /\ api.ret # "ValueError") THEN 1 ELSE 0)
        /\ Committed(Len(api.results) * api.batch_size)
              \/ (api.pc = "done" /\ Committed(Len(api.blocks)))
        /\ \A k \in 1..Len(requests) : requests[k].method # "DELETE"
        /\ (api.pc = "raised" /\ api.ret # "ValueError") =>
              Len(requests) * api.batch_size < Len(api.blocks) + api.batch_size

\* the second chunk failed: the first stays stored, no third request was sent
C6_Witness ==
    /\ Appending /\ api.chunked /\ api.pc = "raised"
    /\ Len(requests) = 2 /\ Len(api.results) = 1
    /\ Len(api.blocks) > 2 * api.batch_size
    /\ Committed(api.batch_size)

\* C7: append_children with batch_size > 100, update_page without properties
\* and archived, and get_property_item with page_size <= 0 raise ValueError
\* with no HTTP request sent and the remote state untouched.
C7_ValidationBeforeAnyRequest ==
    ( \/ Appending /\ api.batch_size > NotionLimit
      \/ api.op = "update_page" /\ api.properties = "None" /\ api.archived = "None"
      \/ api.op = "get_property_item" /\ api.page_size <= 0 )
    => /\ api.pc = "raised" /\ api.ret = "ValueError"
       /\ requests = << >>
       /\ remote = InitialRemote /\ page = InitialPage

C7_Witness ==
    /\ api.op = "get_property_item" /\ api.page_size = 0
    /\ api.pc = "raised" /\ api.ret = "ValueError"
    /\ requests = << >>

(***************************************************************************)
(* with_retry around the tool handlers of the server                       *)
(***************************************************************************)
\* def with_retry(retry_count: int = 3); every handler uses retry_count=3
RetryCount == 3

\* how one HTTP exchange of a handler can end
RemoteOutcomes == {"ok", "HTTP401", "HTTP403", "HTTP404", "HTTP500", "RequestError"}

Handlers == {"get_property_item", "archive_page", "add_todo"}

\* one run of the wrapped handler: await self.ensure_client(), the handler's
\* own checks, then the API call
\*   handle_get_property_item: pages_api.get_property_item raises ValueError
\*   handle_add_todo: a bad due_date raises McpError(INVALID_PARAMETERS)
HandlerResult(func, page_size, date_ok, connected, remote_outcome) ==
    IF ~connected THEN "McpError"
    ELSE IF func = "get_property_item" /\ ~PageSizeValid(page_size) THEN "ValueError"
    ELSE IF func = "add_todo" /\ ~date_ok THEN "McpError"
    ELSE remote_outcome

\* the wrapper is entered: self = args[0] if args else None; last_error = None
RtBegin(func, page_size, date_ok, has_self) ==
    /\ rt.pc = "idle"
    /\ rt' = [IdleRetry EXCEPT !.func = func, !.page_size = page_size,
                               !.date_ok = date_ok, !.has_self = has_self,
                               !.pc = IF 0 < RetryCount THEN "rt_try" ELSE "done",
                               !.ret = IF 0 < RetryCount THEN "none" ELSE "last_error"]
    /\ UNCHANGED <<outcomes, slept>>
    /\ UNCHANGED notRetry

RetryAlways(attempt) == attempt < RetryCount

\* if attempt < retry_count - 1
ShouldRetry(attempt) == attempt < RetryCount - 1

FinalErrorWithout404(e) ==
    IF e = "HTTP401" THEN "AUTHENTICATION_ERROR"
    ELSE IF e = "RequestError" THEN "CONNECTION_ERROR"
    ELSE "API_ERROR"

\* the McpError the wrapper raises for the final error
FinalError(e) ==
    IF e = "HTTP401" THEN "AUTHENTICATION_ERROR"
    ELSE IF e = "HTTP404" THEN "INVALID_DATABASE"
    ELSE IF e \in {"HTTP403", "HTTP500"} THEN "API_ERROR"
    ELSE IF e = "RequestError" THEN "CONNECTION_ERROR"
    ELSE "API_ERROR"

\* try: return await func(*args, **kwargs)
\* except McpError: raise
\* except Exception as e: last_error = e; retry or raise the final McpError
RtAttempt(connected, remote_outcome) ==
    /\ rt.pc = "rt_try"
    /\ LET e == HandlerResult(rt.func, rt.page_size, rt.date_ok, connected, remote_outcome)
       IN  /\ outcomes' = Append(outcomes, e)
           /\ rt' = IF e = "ok" THEN [rt EXCEPT !.pc = "done", !.ret = "value"]
                    ELSE IF e = "McpError" THEN [rt EXCEPT !.pc = "raised", !.ret = "McpError"]
                    ELSE IF ShouldRetry(rt.attempt)
                    THEN [rt EXCEPT !.pc = "rt_sleep", !.last_error = e]
                    ELSE [rt EXCEPT !.pc = "raised", !.last_error = e, !.ret = FinalError(e)]
    /\ UNCHANGED slept
    /\ UNCHANGED notRetry

\* the loop variable moves on; after the loop: return last_error
NextAttempt(r) ==
    IF r.attempt + 1 < RetryCount
    THEN [r EXCEPT !.attempt = @ + 1, !.pc = "rt_try"]
    ELSE [r EXCEPT !.attempt = @ + 1, !.pc = "done", !.ret = "last_error"]

\* await asyncio.sleep(2 ** attempt)
RtSleep ==
    /\ rt.pc = "rt_sleep"
    /\ slept' = Append(slept, 2 ^ rt.attempt)
    /\ rt' = IF rt.has_self THEN [rt EXCEPT !.pc = "rt_ensure"] ELSE NextAttempt(rt)
    /\ UNCHANGED outcomes
    /\ UNCHANGED notRetry

\* if self: await self.ensure_client(); continue
\* (ensure_client raises McpError when no connection can be made)
RtEnsure(connected) ==
    /\ rt.pc = "rt_ensure"
    /\ rt' = IF connected THEN NextAttempt(rt)
             ELSE [rt EXCEPT !.pc = "raised", !.ret = "McpError"]
    /\ UNCHANGED <<outcomes, slept>>
    /\ UNCHANGED notRetry

\* handle_search_todos (not wrapped): its own except clauses map the error
SearchError(e) ==
    IF e = "HTTP401" THEN "AUTHENTICATION_ERROR"
    ELSE IF e = "HTTP404" THEN "INVALID_DATABASE"
    ELSE IF e = "RequestError" THEN "CONNECTION_ERROR"
    ELSE "API_ERROR"

\* handle_search_todos: await self.ensure_client(); query_database; one attempt
SearchTodos(connected, remote_outcome) ==
    /\ rt.pc = "idle"
    /\ LET e == IF connected THEN remote_outcome ELSE "McpError"
       IN  /\ outcomes' = <<e>>
           /\ rt' = IF e = "ok"
                    THEN [IdleRetry EXCEPT !.func = "search_todos", !.pc = "done",
                                           !.ret = "value"]
                    ELSE IF e = "McpError"
                    THEN [IdleRetry EXCEPT !.func = "search_todos", !.pc = "raised",
                                           !.ret = "McpError"]
                    ELSE [IdleRetry EXCEPT !.func = "search_todos", !.pc = "raised",
                                           !.last_error = e, !.ret = SearchError(e)]
    /\ UNCHANGED slept
    /\ UNCHANGED notRetry

NextRetry ==
    \/ \E connected \in BOOLEAN, remote_outcome \in RemoteOutcomes :
          SearchTodos(connected, remote_outcome)
    \/ \E func \in Handlers, page_size \in {0, 1, DefaultPageSize},
          date_ok \in BOOLEAN, has_self \in BOOLEAN :
          RtBegin(func, page_size, date_ok, has_self)
    \/ \E connected \in BOOLEAN, remote_outcome \in RemoteOutcomes :
          RtAttempt(connected, remote_outcome)
    \/ RtSleep
    \/ \E connected \in BOOLEAN : RtEnsure(connected)

SpecRetry == InitOneCall /\ [][NextRetry]_vars

\* the event loop runs every coroutine that can take a step
SpecRetryFair == SpecRetry /\ WF_vars(NextRetry)

(***************************************************************************)
(* Properties of with_retry                                                *)
(***************************************************************************)
\* attempt k was not retried: it is the last one, the wrapper has raised and
\* slept only before it
NotRetried(k) ==
    /\ k = Len(outcomes)
    /\ rt.pc = "raised"
    /\ Len(slept) = k - 1

\* C8: an attempt that fails with HTTP 401 is never retried: no delay follows
\* it and the authentication error reaches the caller at once.
C8_AuthErrorNotRetried ==
    \A k \in 1..Len(outcomes) :
        outcomes[k] = "HTTP401" => (NotRetried(k) /\ rt.ret = "AUTHENTICATION_ERROR")

\* C9: an attempt that raises a validation error (get_page_property with
\* page_size <= 0) is never retried and no delay follows it.
C9_ValidationErrorNotRetried ==
    \A k \in 1..Len(outcomes) :
        outcomes[k] = "ValueError" => NotRetried(k)

TypedErrors ==
    {"McpError", "AUTHENTICATION_ERROR", "INVALID_DATABASE", "API_ERROR", "CONNECTION_ERROR"}

RetryBounded ==
    /\ Len(outcomes) <= RetryCount
    /\ Len(slept) <= RetryCount - 1
    /\ Len(slept) <= Len(outcomes)
    /\ \A k \in 1..Len(slept) : slept[k] = 2 ^ (k - 1)
    /\ \A k \in 1..Len(outcomes) :
          outcomes[k] = "ok" => (k = Len(outcomes) /\ rt.pc = "done" /\ rt.ret = "value")
    /\ (Len(outcomes) = RetryCount /\ outcomes[RetryCount] # "ok")
          => (rt.pc = "raised" /\ rt.ret \in TypedErrors)
    /\ rt.pc = "done" => rt.ret = "value"

\* C10: with retry_count = 3 the wrapper ends after at most 3 attempts; the
\* delays are 1 then 2, taken only after a failed attempt that is retried;
\* the last failed attempt raises a typed error; a successful attempt returns
\* its result and no further attempt is made.
C10_RetryTerminatesBounded ==
    /\ []RetryBounded
    /\ (rt.pc = "rt_try") ~> (rt.pc \in {"done", "raised"})

\* three attempts failed, the wrapper slept 1 then 2 and raised
C10_Witness ==
    /\ Len(outcomes) = RetryCount
    /\ slept = <<1, 2>>
    /\ rt.pc = "raised" /\ rt.ret = "CONNECTION_ERROR"

\* the wrapper or handle_search_todos has raised for a non-2xx response
RaisedForStatus(e) == rt.pc = "raised" /\ rt.last_error = e /\ rt.ret # "McpError"

IsPrefix(s, t) == Len(s) <= Len(t) /\ SubSeq(t, 1, Len(s)) = s

\* the remote calls the claim lists for update_subtask_status(s, v, update_parent)
ListedCalls(s, update_parent) ==
    LET p == blocks[s].parent
    IN  IF ~update_parent
        THEN <<RemoteCall("PATCH", "block", s), RemoteCall("GET", "block", s)>>
        ELSE IF p = NoId
        THEN <<RemoteCall("PATCH", "block", s), RemoteCall("GET", "block", s),
               RemoteCall("GET", "block", s)>>
        ELSE <<RemoteCall("PATCH", "block", s), RemoteCall("GET", "block", s),
               RemoteCall("GET", "children", p), RemoteCall("PATCH", "block", p)>>

C19_ReturnsAllSubtasks ==
    \A c \in Clients :
        (call[c].op = "get_subtasks" /\ call[c].pc = "done") =>
            call[c].subtasks = SelectSeq(children[call[c].id], IsSubtaskBlock)

\* C20: create_subtask with empty content fails with a validation error
\* before any request is sent and appends nothing under the parent.
C20_EmptyContentRejected ==
    \A c \in Clients :
        (call[c].op = "create_subtask" /\ call[c].content = "") =>
            /\ call[c].pc = "raised"
            /\ call[c].ret = "ValidationError"
            /\ call[c].sent = << >>

(***************************************************************************)
(* Text: a string is a sequence of characters, "\n" separates lines        *)
(***************************************************************************)
\* longest markdown input, in lines
MaxLines == 3

\* RichTextContent: MAX_TEXT_LENGTH
MaxTextLength == 2000

\* the characters str.strip() removes
Whitespace == {" ", "\n", "\t"}

\* the characters a digit pattern matches
Digits == {"0", "1", "2", "3", "4", "5", "6", "7", "8", "9"}

SetMax(S) == CHOOSE m \in S : \A x \in S : x <= m
SetMin(S) == CHOOSE m \in S : \A x \in S : m <= x

\* not s.strip()
IsSpace(s) == \A i \in 1..Len(s) : s[i] \in Whitespace

\* s.rstrip()
RStrip(s) ==
    LET keep == {i \in 1..Len(s) : s[i] \notin Whitespace}
    IN  IF keep = {} THEN << >> ELSE SubSeq(s, 1, SetMax(keep))

\* s.lstrip()
LStrip(s) ==
    LET keep == {i \in 1..Len(s) : s[i] \notin Whitespace}
    IN  IF keep = {} THEN << >> ELSE SubSeq(s, SetMin(keep), Len(s))

\* s.strip()
Strip(s) == LStrip(RStrip(s))

\* s.startswith(p)
StartsWith(s, p) == Len(s) >= Len(p) /\ SubSeq(s, 1, Len(p)) = p

\* s[n:]
Drop(s, n) == SubSeq(s, n + 1, Len(s))

\* s.split(newline)
RECURSIVE Split(_)
Split(s) ==
    LET nl == {i \in 1..Len(s) : s[i] = "\n"}
    IN  IF nl = {} THEN <<s>>
        ELSE <<SubSeq(s, 1, SetMin(nl) - 1)>> \o Split(Drop(s, SetMin(nl)))

\* newline.join(lines)
RECURSIVE Join(_)
Join(lines) ==
    IF lines = << >> THEN << >>
    ELSE IF Len(lines) = 1 THEN lines[1]
    ELSE lines[1] \o <<"\n">> \o Join(Tail(lines))

\* str(n) for n >= 0
RECURSIVE Str(_)
Str(n) ==
    LET digit(d) == CHOOSE c \in Digits :
            c = <<"0", "1", "2", "3", "4", "5", "6", "7", "8", "9">>[d + 1]
    IN  IF n < 10 THEN <<digit(n)>> ELSE Str(n \div 10) \o <<digit(n % 10)>>

(***************************************************************************)
(* utils/formatting.py: create_rich_text, create_block                     *)
(***************************************************************************)
\* models.BlockType
BlockTypes ==
    {"paragraph", "heading_1", "heading_2", "heading_3", "bulleted_list_item",
     "numbered_list_item", "to_do", "toggle", "code", "quote", "callout", "divider"}

\* a block object: rich_text is the list of text contents ("rich_text" key
\* absent: the empty list), language and content are the code block's keys
\* (absent: empty), checked is the to_do's key (absent: FALSE)
BlockObject(type, rich_text, language, content, checked) ==
    [type |-> type, rich_text |-> rich_text, language |-> language,
     content |-> content, checked |-> checked]

Built(value) == [ok |-> TRUE, value |-> value, error |-> "none"]
Failed(error) == [ok |-> FALSE, value |-> << >>, error |-> error]

CreateRichTextLimitExclusive(content) ==
    IF content = << >> THEN Failed("Content cannot be empty")
    ELSE IF IsSpace(content) THEN Failed("Content cannot be empty")
    ELSE IF Len(content) >= MaxTextLength THEN Failed("Content length exceeds maximum")
    ELSE Built(<<Strip(content)>>)

\* create_rich_text(content): RichTextContent validates and strips
CreateRichText(content) ==
    IF content = << >> THEN Failed("Content cannot be empty")
    ELSE IF IsSpace(content) THEN Failed("Content cannot be empty")
    ELSE IF Len(content) > MaxTextLength THEN Failed("Content length exceeds maximum")
    ELSE Built(<<Strip(content)>>)

Language(language) == [NoProps EXCEPT !.has_language = TRUE, !.language = language]
Checked(checked) == [NoProps EXCEPT !.has_checked = TRUE, !.checked = checked]

\* create_block(content, block_type, extra_props=...)
CreateBlock(content, block_type, extra_props) ==
    IF content = << >> /\ block_type # "code" THEN Failed("Content cannot be empty")
    ELSE IF block_type \notin BlockTypes THEN Failed("Invalid block type")
    ELSE IF block_type = "code"
    THEN IF extra_props.has_language
         THEN LET rich_text == CreateRichText(extra_props.language)
              IN  IF ~rich_text.ok THEN Failed(rich_text.error)
                  ELSE Built(BlockObject("code", rich_text.value,
                                         extra_props.language, content, FALSE))
         ELSE Built(BlockObject("code", << >>, << >>, content, FALSE))
    ELSE LET rich_text == CreateRichText(content)
         IN  IF ~rich_text.ok THEN Failed(rich_text.error)
             ELSE Built(BlockObject(block_type, rich_text.value,
                                    IF extra_props.has_language
                                    THEN extra_props.language ELSE << >>,
                                    << >>,
                                    extra_props.has_checked /\ extra_props.checked))

(***************************************************************************)
(* utils/formatting.py: parse_markdown_to_blocks                           *)
(***************************************************************************)
\* the grave accent, a character a TLA+ string cannot hold
Backtick == "backtick"

\* the code fence: three grave accents
Fence == <<Backtick, Backtick, Backtick>>

\* number of characters the numbered-item pattern (digits, a dot, a space)
\* matches at the start of the line, 0 for no match
NumberedPrefix(line) ==
    LET nondigit == {i \in 1..Len(line) : line[i] \notin Digits}
        n == IF nondigit = {} THEN Len(line) ELSE SetMin(nondigit) - 1
    IN  IF n >= 1 /\ StartsWith(Drop(line, n), <<".", " ">>) THEN n + 2 ELSE 0

NumberedContentWithNumeral(line) == Strip(line)

\* the line without the matched prefix, stripped
NumberedContent(line) == Strip(Drop(line, NumberedPrefix(line)))

\* the try block: the block of a non-blank line outside code blocks
ParseLine(line) ==
    IF StartsWith(line, <<"#", " ">>)
    THEN CreateBlock(Strip(Drop(line, 2)), "heading_1", NoProps)
    ELSE IF StartsWith(line, <<"#", "#", " ">>)
    THEN CreateBlock(Strip(Drop(line, 3)), "heading_2", NoProps)
    ELSE IF StartsWith(line, <<"#", "#", "#", " ">>)
    THEN CreateBlock(Strip(Drop(line, 4)), "heading_3", NoProps)
    ELSE IF StartsWith(line, <<"-", " ">>)
    THEN CreateBlock(Strip(Drop(line, 2)), "bulleted_list_item", NoProps)
    ELSE IF NumberedPrefix(line) > 0
    THEN CreateBlock(NumberedContent(line), "numbered_list_item", NoProps)
    ELSE IF StartsWith(line, <<"[", " ", "]", " ">>)
    THEN CreateBlock(Strip(Drop(line, 4)), "to_do", Checked(FALSE))
    ELSE IF StartsWith(line, <<"[", "x", "]", " ">>)
    THEN CreateBlock(Strip(Drop(line, 4)), "to_do", Checked(TRUE))
    ELSE IF StartsWith(line, <<">", " ">>)
    THEN CreateBlock(Strip(Drop(line, 2)), "quote", NoProps)
    ELSE CreateBlock(Strip(line), "paragraph", NoProps)

\* the loop variables before the first line
ParseStart ==
    [blocks |-> << >>, in_code_block |-> FALSE, code_content |-> << >>,
     code_language |-> << >>, error |-> "none"]

\* one iteration of the while loop on lines[i]
ParseStep(st, raw) ==
    LET line == RStrip(raw)
    IN  IF line = << >> /\ ~st.in_code_block THEN st
        ELSE IF StartsWith(line, Fence)
        THEN IF ~st.in_code_block
             THEN [st EXCEPT !.in_code_block = TRUE,
                             !.code_content = << >>,
                             !.code_language = IF Len(line) > 3 THEN Drop(line, 3)
                                               ELSE << >>]
             ELSE LET b == CreateBlock(
                               IF st.code_content # << >> THEN Join(st.code_content)
                               ELSE << >>,
                               "code",
                               IF st.code_language # << >>
                               THEN Language(st.code_language) ELSE NoProps)
                  IN  IF b.ok
                      THEN [st EXCEPT !.blocks = Append(@, b.value),
                                      !.in_code_block = FALSE,
                                      !.code_language = << >>]
                      ELSE [st EXCEPT !.error = b.error]
        ELSE IF st.in_code_block
        THEN [st EXCEPT !.code_content = Append(@, line)]
        ELSE LET b == ParseLine(line)
             IN  IF b.ok THEN [st EXCEPT !.blocks = Append(@, b.value)]
                 ELSE [st EXCEPT !.error = "Error parsing line"]

\* while i < len(lines)
RECURSIVE ParseLines(_, _, _)
ParseLines(lines, i, st) ==
    IF st.error # "none" \/ i > Len(lines) THEN st
    ELSE ParseLines(lines, i + 1, ParseStep(st, lines[i]))

ParseEndLenient(st) ==
    IF st.error # "none" THEN Failed(st.error) ELSE Built(st.blocks)

\* after the loop: if in_code_block: raise ValueError(...); return blocks
ParseEnd(st) ==
    IF st.error # "none" THEN Failed(st.error)
    ELSE IF st.in_code_block THEN Failed("Unclosed code block at end of markdown")
    ELSE Built(st.blocks)

ParseMarkdownToBlocks(markdown) ==
    IF markdown = << >> THEN Built(<< >>)
    ELSE ParseEnd(ParseLines(Split(markdown), 1, ParseStart))

(***************************************************************************)
(* utils/formatting.py: blocks_to_markdown                                 *)
(***************************************************************************)
\* the loop variables before the first block; numbers[i] is the value of
\* numbered_list_counter block i was rendered with (0: not a numbered item)
RenderStart ==
    [markdown |-> << >>, numbered_list_counter |-> 0, numbers |-> << >>,
     error |-> "none"]

BothListItems(block_type, next_block_type) ==
    /\ block_type \in {"numbered_list_item", "bulleted_list_item"}
    /\ next_block_type \in {"numbered_list_item", "bulleted_list_item"}

\* consecutive list items of the same type
SameListKind(block_type, next_block_type) ==
    /\ block_type \in {"numbered_list_item", "bulleted_list_item"}
    /\ block_type = next_block_type

\* the kinds whose branch sets numbered_list_counter = 0
ResetsCounter(block_type) ==
    block_type \in {"heading_1", "heading_2", "heading_3", "bulleted_list_item",
                    "to_do", "quote", "paragraph"}

\* the line a block that is not a code block is rendered as
RenderLine(block, counter) ==
    LET content == block.rich_text[1]
    IN  CASE block.type = "heading_1" -> << <<"#", " ">> \o content >>
          [] block.type = "heading_2" -> << <<"#", "#", " ">> \o content >>
          [] block.type = "heading_3" -> << <<"#", "#", "#", " ">> \o content >>
          [] block.type = "bulleted_list_item" -> << <<"-", " ">> \o content >>
          [] block.type = "numbered_list_item" ->
                 << Str(counter) \o <<".", " ">> \o content >>
          [] block.type = "to_do" ->
                 << <<"[", IF block.checked THEN "x" ELSE " ", "]", " ">> \o content >>
          [] block.type = "quote" -> << <<">", " ">> \o content >>
          [] block.type = "paragraph" -> <<content>>
          [] OTHER -> << >>

\* one iteration of the while loop on blocks[i]
RenderStep(st, blks, i) ==
    LET block == blks[i]
        last == i = Len(blks)
    IN  IF block.type = "code"
        THEN IF block.content = << >> /\ block.rich_text = << >>
             THEN [st EXCEPT !.error = "KeyError"]
             ELSE [st EXCEPT
                      !.markdown = @ \o
                          <<Fence \o block.language,
                            IF block.content # << >> THEN block.content
                            ELSE block.rich_text[1],
                            Fence>> \o
                          (IF ~last THEN << << >> >> ELSE << >>),
                      !.numbers = Append(@, 0)]
        ELSE IF block.rich_text = << >>
        THEN [st EXCEPT !.error = "KeyError"]
        ELSE LET counter ==
                     IF block.type = "numbered_list_item"
                     THEN st.numbered_list_counter + 1
                     ELSE IF ResetsCounter(block.type) THEN 0
                     ELSE st.numbered_list_counter
                 blank ==
                     IF ~last
                     THEN IF ~SameListKind(block.type, blks[i + 1].type)
                          THEN << << >> >> ELSE << >>
                     ELSE IF Len(blks) > 1 THEN << << >> >> ELSE << >>
             IN  [st EXCEPT
                     !.markdown = @ \o RenderLine(block, counter) \o blank,
                     !.numbered_list_counter = counter,
                     !.numbers = Append(@, IF block.type = "numbered_list_item"
                                           THEN counter ELSE 0)]

\* while i < len(blocks)
RECURSIVE RenderBlocks(_, _, _)
RenderBlocks(blks, i, st) ==
    IF st.error # "none" \/ i > Len(blks) THEN st
    ELSE RenderBlocks(blks, i + 1, RenderStep(st, blks, i))

\* return "\n".join(markdown).strip()
BlocksToMarkdown(blks) ==
    LET st == RenderBlocks(blks, 1, RenderStart)
    IN  IF st.error # "none" THEN [Failed(st.error) EXCEPT !.value = st]
        ELSE Built([st EXCEPT !.markdown = Strip(Join(st.markdown))])

(***************************************************************************)
(* The conversions, applied to bounded inputs                              *)
(***************************************************************************)
\* the lines the markdown inputs are made of
Lines ==
    { << >>,
      <<"a">>,
      <<"#", " ", "a">>,
      <<"#", "#", " ", "a">>,
      <<"#", "#", "#", " ", "a">>,
      <<"-", " ", "a">>,
      <<"1", ".", " ", "a">>,
      <<"5", ".", " ", "a">>,
      <<"[", " ", "]", " ", "a">>,
      <<"[", "x", "]", " ", "a">>,
      <<">", " ", "a">>,
      Fence,
      Fence \o <<"p", "y">>,
      <<"#", " ", "a", " ">>,
      <<"#", " ">>,
      <<" ", "-", " ", "a">> }

\* the end-to-end scenario: "# Title\n\nBody text\n\n- A\n- B"
ExampleMarkdown ==
    <<"#", " ", "T", "i", "t", "l", "e", "\n", "\n",
      "B", "o", "d", "y", " ", "t", "e", "x", "t", "\n", "\n",
      "-", " ", "A", "\n", "-", " ", "B">>

SeqsUpTo(S, n) == UNION {[1..k -> S] : k \in 0..n}

\* the markdown strings given to parse_markdown_to_blocks
Markdowns == {Join(ls) : ls \in SeqsUpTo(Lines, MaxLines)} \cup {ExampleMarkdown}

\* blocks as create_block builds them, of the kinds blocks_to_markdown renders
BuiltBlocks ==
    {CreateBlock(<<"a">>, t, NoProps).value :
        t \in {"paragraph", "heading_1", "heading_2", "heading_3",
               "bulleted_list_item", "numbered_list_item", "quote"}}
    \cup {CreateBlock(<<"a">>, "to_do", Checked(v)).value : v \in BOOLEAN}
    \cup {CreateBlock(c, "code", p).value :
            c \in {<< >>, <<"x">>}, p \in {NoProps, Language(<<"p", "y">>)}}

\* the block lists given to blocks_to_markdown
BlockLists == SeqsUpTo(BuiltBlocks, MaxBlocks)

InitMarkdown ==
    /\ InitStore(0, FALSE)
    /\ InitClients
    /\ InitApi
    /\ InitRetry
    /\ InitServer
    /\ \/ \E markdown \in Markdowns :
            doc = [IdleDoc EXCEPT !.pc = "markdown", !.given = "markdown",
                                  !.markdown = markdown]
       \/ \E blks \in BlockLists :
            doc = [IdleDoc EXCEPT !.pc = "blocks", !.given = "blocks", !.blocks = blks]

\* blocks = parse_markdown_to_blocks(markdown)
ParseMarkdown ==
    /\ doc.pc = "markdown"
    /\ LET r == ParseMarkdownToBlocks(doc.markdown)
       IN  doc' = IF r.ok THEN [doc EXCEPT !.pc = "parsed", !.blocks = r.value]
                  ELSE [doc EXCEPT !.pc = "parse_failed", !.error = r.error]
    /\ UNCHANGED notDoc

\* result = blocks_to_markdown(blocks)
RenderMarkdown ==
    /\ doc.pc \in {"parsed", "blocks"}
    /\ LET r == BlocksToMarkdown(doc.blocks)
       IN  doc' = IF r.ok
                  THEN [doc EXCEPT !.pc = "rendered", !.output = r.value.markdown,
                                   !.numbers = r.value.numbers]
                  ELSE [doc EXCEPT !.pc = "render_failed", !.error = r.error]
    /\ UNCHANGED notDoc

\* parse_markdown_to_blocks(result) on the text blocks_to_markdown returned for
\* parsed blocks
ReparseMarkdown ==
    /\ doc.pc = "rendered"
    /\ doc.given = "markdown"
    /\ LET r == ParseMarkdownToBlocks(doc.output)
       IN  doc' = IF r.ok THEN [doc EXCEPT !.pc = "reparsed", !.reparsed = r.value]
                  ELSE [doc EXCEPT !.pc = "reparse_failed", !.error = r.error]
    /\ UNCHANGED notDoc

NextMarkdown ==
    \/ ParseMarkdown
    \/ RenderMarkdown
    \/ ReparseMarkdown

SpecMarkdown == InitMarkdown /\ [][NextMarkdown]_vars

(***************************************************************************)
(* Properties of the markdown conversion                                   *)
(***************************************************************************)
\* the comparison of the round-trip test: every line stripped, blank lines dropped
Normalize(text) ==
    LET kept == SelectSeq(Split(text), LAMBDA l : ~IsSpace(l))
    IN  Join([i \in 1..Len(kept) |-> Strip(kept[i])])

RECURSIVE SortedSeq(_)
SortedSeq(S) == IF S = {} THEN << >> ELSE <<SetMin(S)>> \o SortedSeq(S \ {SetMin(S)})

\* the lines that start with a code fence, in order
FenceLines(lines) == SortedSeq({i \in 1..Len(lines) : StartsWith(lines[i], Fence)})

\* line i lies between an opening fence and the next fence line
InsideCode(lines, i) ==
    /\ ~StartsWith(lines[i], Fence)
    /\ Cardinality({j \in 1..(i - 1) : StartsWith(lines[j], Fence)}) % 2 = 1

\* every fence that opens a code block is closed by a bare fence line
ComposedOfConstructs(markdown) ==
    LET lines == Split(markdown)
        fences == FenceLines(lines)
    IN  /\ Len(fences) % 2 = 0
        /\ \A k \in 1..Len(fences) : k % 2 = 0 => RStrip(lines[fences[k]]) = Fence

Parsed == doc.given = "markdown" /\ doc.pc \in {"parsed", "rendered", "render_failed"}

\* C12: for every markdown made only of the nine recognized constructs,
\* blocks_to_markdown(parse_markdown_to_blocks(md)) succeeds and equals md
\* after both sides are normalized (lines trimmed, blank lines dropped).
C12_RoundTrip ==
    (/\ doc.given = "markdown"
     /\ doc.pc \in {"rendered", "render_failed"}
     /\ ComposedOfConstructs(doc.markdown)) =>
        /\ doc.pc = "rendered"
        /\ Normalize(doc.output) = Normalize(doc.markdown)

CodeBlocks(blks) == SelectSeq(blks, LAMBDA b : b.type = "code")

\* C13: in code-block mode every line up to the next fence line is
\* accumulated unchanged (blank lines, trailing whitespace, lines that look
\* like other constructs); the closing fence emits exactly one code block
\* whose content is those lines joined by newlines and whose language is the
\* text after the opening fence.
C13_CodeLinesLiteral ==
    Parsed =>
        LET lines == Split(doc.markdown)
            fences == FenceLines(lines)
            code == CodeBlocks(doc.blocks)
        IN  /\ Len(code) * 2 = Len(fences)
            /\ \A k \in 1..Len(code) :
                   /\ code[k].content =
                          Join(SubSeq(lines, fences[2 * k - 1] + 1, fences[2 * k] - 1))
                   /\ code[k].language = Drop(lines[fences[2 * k - 1]], 3)

\* the rule table of the claim: kind, content and checked of a line
RuleOf(l) ==
    LET rule(type, n, checked) ==
            [type |-> type, content |-> Strip(Drop(l, n)), checked |-> checked]
        digits == {i \in 1..Len(l) : \A j \in 1..i : l[j] \in Digits}
        numeral == IF digits = {} THEN 0 ELSE SetMax(digits)
    IN  IF StartsWith(l, <<"#", " ">>) THEN rule("heading_1", 2, FALSE)
        ELSE IF StartsWith(l, <<"#", "#", " ">>) THEN rule("heading_2", 3, FALSE)
        ELSE IF StartsWith(l, <<"#", "#", "#", " ">>) THEN rule("heading_3", 4, FALSE)
        ELSE IF StartsWith(l, <<"-", " ">>) THEN rule("bulleted_list_item", 2, FALSE)
        ELSE IF numeral > 0 /\ StartsWith(Drop(l, numeral), <<".", " ">>)
        THEN rule("numbered_list_item", numeral + 2, FALSE)
        ELSE IF StartsWith(l, <<"[", " ", "]", " ">>) THEN rule("to_do", 4, FALSE)
        ELSE IF StartsWith(l, <<"[", "x", "]", " ">>) THEN rule("to_do", 4, TRUE)
        ELSE IF StartsWith(l, <<">", " ">>) THEN rule("quote", 2, FALSE)
        ELSE rule("paragraph", 0, FALSE)

\* the non-blank lines outside code blocks, fence lines excluded, in order
OutsideLines(lines) ==
    LET idx == SortedSeq({i \in 1..Len(lines) :
                   /\ ~IsSpace(lines[i])
                   /\ ~StartsWith(lines[i], Fence)
                   /\ ~InsideCode(lines, i)})
    IN  [k \in 1..Len(idx) |-> lines[idx[k]]]

\* the blocks that are not code blocks are exactly what the rules give for
\* the lines outside code blocks, one block per line, in order
BlocksFollowRules(lines_of(_)) ==
    LET outside == OutsideLines(Split(doc.markdown))
        emitted == SelectSeq(doc.blocks, LAMBDA b : b.type # "code")
    IN  /\ Len(emitted) = Len(outside)
        /\ \A k \in 1..Len(emitted) :
               LET r == RuleOf(lines_of(outside[k]))
               IN  /\ emitted[k].type = r.type
                   /\ emitted[k].rich_text = <<r.content>>
                   /\ emitted[k].checked = r.checked

AsWritten(l) == l

\* C14 (as stated): outside code blocks one block per non-blank line, none
\* for a blank line, in line order, the kind decided by the first rule whose
\* prefix the line starts with.
C14_OneBlockPerLineByPrefix == Parsed => BlocksFollowRules(AsWritten)

\* C14 (amended): the same, with the rules applied to the line after its
\* trailing whitespace is removed, so that a marker followed by nothing but
\* whitespace matches no marker rule and becomes a paragraph.
C14_OneBlockPerLineByStrippedPrefix == Parsed => BlocksFollowRules(RStrip)

\* a numbered item, a blank line and a bare heading marker have been parsed
C14_Witness ==
    /\ Parsed
    /\ Len(Split(doc.markdown)) = 3
    /\ Len(doc.blocks) = 2
    /\ doc.blocks[1].type = "numbered_list_item"
    /\ doc.blocks[1].rich_text = << <<"a">> >>
    /\ doc.blocks[2].type = "paragraph"
    /\ doc.blocks[2].rich_text = << <<"#">> >>

Unclosed == "Unclosed code block at end of markdown"

\* C15: parsing fails with the unclosed-code-block error whenever the input
\* ends inside a fenced code block, and then returns no block at all; an input
\* whose opening fences are all closed never raises that error.
C15_UnclosedFenceFails ==
    (doc.given = "markdown" /\ doc.pc # "markdown") =>
        LET open == Len(FenceLines(Split(doc.markdown))) % 2 = 1
        IN  /\ open => /\ doc.pc = "parse_failed"
                       /\ doc.error = Unclosed
                       /\ doc.blocks = << >>
            /\ ~open => ~(doc.pc = "parse_failed" /\ doc.error = Unclosed)

\* a heading was parsed before the fence that is never closed
C15_Witness ==
    /\ doc.pc = "parse_failed"
    /\ doc.error = Unclosed
    /\ Split(doc.markdown)[1] = <<"#", " ", "a">>
    /\ Len(FenceLines(Split(doc.markdown))) = 1

\* C16: numbered items are numbered 1, 2, 3, ... within a run and the first
\* numbered item after a block of any other kind is rendered as number 1.
C16_CounterResets ==
    doc.pc = "rendered" =>
        \A i \in 1..Len(doc.blocks) :
            doc.blocks[i].type = "numbered_list_item" =>
                doc.numbers[i] =
                    IF i > 1 /\ doc.blocks[i - 1].type = "numbered_list_item"
                    THEN doc.numbers[i - 1] + 1 ELSE 1

\* two consecutive list items of the identical kind
IdenticalListItems(a, b) ==
    \/ a.type = "bulleted_list_item" /\ b.type = "bulleted_list_item"
    \/ a.type = "numbered_list_item" /\ b.type = "numbered_list_item"

\* the number of output lines a block takes
LinesOf(b) ==
    IF b.type = "code"
    THEN 2 + Len(Split(IF b.content # << >> THEN b.content ELSE b.rich_text[1]))
    ELSE 1

\* the output line block i starts at when one blank line separates adjacent
\* blocks, except two consecutive list items of the identical kind
RECURSIVE StartOf(_, _)
StartOf(blks, i) ==
    IF i = 1 THEN 1
    ELSE StartOf(blks, i - 1) + LinesOf(blks[i - 1])
             + (IF IdenticalListItems(blks[i - 1], blks[i]) THEN 0 ELSE 1)

EndsWith(s, t) == Len(s) >= Len(t) /\ SubSeq(s, Len(s) - Len(t) + 1, Len(s)) = t

\* C17: exactly one blank line between two adjacent blocks, none between two
\* consecutive list items of the identical kind, no leading or trailing
\* whitespace in the output; the end-to-end scenario parses to the four
\* blocks [heading_1, paragraph, bulleted_list_item, bulleted_list_item] and
\* serializes back to the same string.
C17_BlankLineBetweenBlocks ==
    doc.pc = "rendered" =>
        LET out == Split(doc.output)
            blks == doc.blocks
            n == Len(blks)
        IN  /\ doc.output = Strip(doc.output)
            /\ n = 0 => doc.output = << >>
            /\ n > 0 => Len(out) = StartOf(blks, n) + LinesOf(blks[n]) - 1
            /\ \A i \in 1..n :
                   LET first == out[StartOf(blks, i)]
                   IN  IF blks[i].type = "code"
                       THEN /\ StartsWith(first, Fence)
                            /\ out[StartOf(blks, i) + LinesOf(blks[i]) - 1] = Fence
                       ELSE EndsWith(first, blks[i].rich_text[1])
            /\ \A i \in 1..(n - 1) :
                   ~IdenticalListItems(blks[i], blks[i + 1]) =>
                       out[StartOf(blks, i) + LinesOf(blks[i])] = << >>
            /\ (doc.given = "markdown" /\ doc.markdown = ExampleMarkdown) =>
                   /\ [i \in 1..n |-> blks[i].type] =
                          <<"heading_1", "paragraph", "bulleted_list_item",
                            "bulleted_list_item">>
                   /\ doc.output = ExampleMarkdown

\* the end-to-end scenario has been parsed and serialized
C17_Witness ==
    /\ doc.pc = "rendered"
    /\ doc.markdown = ExampleMarkdown
    /\ Len(doc.blocks) = 4
    /\ doc.output = ExampleMarkdown

(***************************************************************************)
(* The builders, called directly                                           *)
(***************************************************************************)
\* the kind strings given to create_block: the BlockType members and
\* strings that are no member
KindStrings == BlockTypes \cup {"column_list", "column", "invalid_type"}

\* n times the character c
Repeat(c, n) == [i \in 1..n |-> c]

\* the contents given to create_block
BlockContents == {<< >>, <<"a">>, <<" ", "a", " ">>}

\* the extra_props given to create_block
BlockProps == {NoProps, Language(<<"p", "y">>), Checked(TRUE)}

\* the contents given to create_rich_text, around the length limit
RichTextContents ==
    {Repeat("a", n) :
        n \in {0, 1, MaxTextLength - 1, MaxTextLength, MaxTextLength + 1}}
    \cup {Repeat(" ", n) : n \in {1, 2, MaxTextLength + 1}}
    \cup {<<" ", "a", " ">>,
          Repeat("a", MaxTextLength) \o <<" ">>,
          <<" ">> \o Repeat("a", MaxTextLength - 1)}

\* None and the empty string both make "not content" true and are never
\* read afterwards
Given(absent, content) == IF absent THEN << >> ELSE content

InitBuilder ==
    /\ InitStore(0, FALSE)
    /\ InitClients
    /\ InitApi
    /\ InitRetry
    /\ InitServer
    /\ \/ \E t \in KindStrings, absent \in BOOLEAN, c \in BlockContents, p \in BlockProps :
            /\ absent => c = << >>
            /\ doc = [IdleDoc EXCEPT !.pc = "create_block", !.given = "create_block",
                                     !.block_type = t, !.absent = absent,
                                     !.content = c, !.extra_props = p]
       \/ \E absent \in BOOLEAN, c \in RichTextContents :
            /\ absent => c = << >>
            /\ doc = [IdleDoc EXCEPT !.pc = "create_rich_text",
                                     !.given = "create_rich_text",
                                     !.absent = absent, !.content = c]

\* block = create_block(content, block_type, extra_props=...)
BuildBlock ==
    /\ doc.pc = "create_block"
    /\ LET r == CreateBlock(Given(doc.absent, doc.content), doc.block_type,
                            doc.extra_props)
       IN  doc' = IF r.ok THEN [doc EXCEPT !.pc = "built", !.blocks = <<r.value>>]
                  ELSE [doc EXCEPT !.pc = "build_failed", !.error = r.error]
    /\ UNCHANGED notDoc

\* rich_text = create_rich_text(content)
BuildRichText ==
    /\ doc.pc = "create_rich_text"
    /\ LET r == CreateRichText(Given(doc.absent, doc.content))
       IN  doc' = IF r.ok THEN [doc EXCEPT !.pc = "built", !.rich_text = r.value]
                  ELSE [doc EXCEPT !.pc = "build_failed", !.error = r.error]
    /\ UNCHANGED notDoc

NextBuilder ==
    \/ BuildBlock
    \/ BuildRichText

SpecBuilder == InitBuilder /\ [][NextBuilder]_vars

BuilderReturned(given) == doc.given = given /\ doc.pc \in {"built", "build_failed"}

\* C21: create_block succeeds with empty or absent content if and only if
\* the kind is code, divider, column_list or column; a kind string outside
\* the known kinds always fails with the invalid-block-type error.
C21_ContentRequiredExceptStructural ==
    BuilderReturned("create_block") =>
        /\ Given(doc.absent, doc.content) = << >> =>
               (doc.pc = "built" <=>
                    doc.block_type \in {"code", "divider", "column_list", "column"})
        /\ doc.block_type \notin BlockTypes \cup {"column_list", "column"} =>
               doc.pc = "build_failed" /\ doc.error = "Invalid block type"

\* C22: create_rich_text fails with the content-empty error for None, the
\* empty string and whitespace-only content; other content fails with the
\* length error when it is longer than 2000 characters and succeeds up to
\* 2000; every successful call returns exactly one rich-text object.
C22_RichTextBoundary ==
    BuilderReturned("create_rich_text") =>
        LET content == doc.content
            empty == doc.absent \/ IsSpace(content)
        IN  /\ empty => doc.pc = "build_failed" /\ doc.error = "Content cannot be empty"
            /\ (~empty /\ Len(content) > MaxTextLength) =>
                   /\ doc.pc = "build_failed"
                   /\ doc.error = "Content length exceeds maximum"
            /\ (~empty /\ Len(content) <= MaxTextLength) => doc.pc = "built"
            /\ doc.pc = "built" => Len(doc.rich_text) = 1

\* content of exactly 2000 characters has been accepted
C22_Witness ==
    /\ doc.given = "create_rich_text"
    /\ doc.pc = "built"
    /\ Len(doc.content) = MaxTextLength
    /\ Len(doc.rich_text) = 1

(***************************************************************************)
(* PagesAPI: the operations on one page, called one after another          *)
(***************************************************************************)
\* how the remote service answers a PagesAPI request
PageOutcomes == {"ok", "status"}

MayRequest == Len(requests) < MaxRequests

\* PagesAPI.update_page, one of a series of calls
PagesUpdatePage(properties, archived, outcome) ==
    /\ MayRequest
    /\ PatchPage("update_page", properties, archived, outcome)

\* PagesAPI.archive_page: return await self.update_page(page_id, archived=True)
ArchivePage(outcome) ==
    /\ MayRequest
    /\ PatchPage("archive_page", "None", "True", outcome)

\* PagesAPI.restore_page: return await self.update_page(page_id, archived=False)
RestorePage(outcome) ==
    /\ MayRequest
    /\ PatchPage("restore_page", "None", "False", outcome)

\* a request of PagesAPI that changes nothing of the page
ReadOnly(op, method, path, body, outcome) ==
    /\ MayRequest
    /\ requests' = Append(requests, Request(method, path, << >>, NoId, body))
    /\ api' = IF outcome = "ok"
              THEN [IdleApi EXCEPT !.op = op, !.pc = "done", !.ret = "dict"]
              ELSE [IdleApi EXCEPT !.op = op, !.pc = "raised", !.ret = ErrorOf(outcome)]
    /\ UNCHANGED <<remote, nextRid, page>>
    /\ UNCHANGED notApi

\* PagesAPI.get_page: GET pages/{page_id}
GetPage(outcome) == ReadOnly("get_page", "GET", "pages", PageBody("None", "None"), outcome)

\* PagesAPI.create_page: POST pages, another page is created
CreatePage(properties, outcome) ==
    ReadOnly("create_page", "POST", "pages", PageBody(properties, "None"), outcome)

NextPages ==
    \/ \E properties \in {"None", "P1"}, archived \in {"None", "True", "False"},
          outcome \in PageOutcomes : PagesUpdatePage(properties, archived, outcome)
    \/ \E outcome \in PageOutcomes : ArchivePage(outcome)
    \/ \E outcome \in PageOutcomes : RestorePage(outcome)
    \/ \E outcome \in PageOutcomes : GetPage(outcome)
    \/ \E outcome \in PageOutcomes : CreatePage("P1", outcome)

SpecPages == InitOneCall /\ [][NextPages]_vars

\* the single request archive_page / restore_page is to send
ArchivedOnly(v) ==
    Request("PATCH", "pages", << >>, NoId, [properties |-> "absent", archived |-> v])

\* no DELETE request; archive_page and restore_page each send exactly one
\* PATCH of the page whose body is exactly the archived flag, the request
\* update_page sends for the same flag
OneArchivedPatch ==
    /\ \A i \in 1..Len(requests') : requests'[i].method \in {"GET", "PATCH", "POST"}
    /\ (\/ api'.op = "archive_page"
        \/ api'.op = "update_page" /\ api'.properties = "None" /\ api'.archived = "True")
           => requests' = Append(requests, ArchivedOnly("True"))
    /\ (\/ api'.op = "restore_page"
        \/ api'.op = "update_page" /\ api'.properties = "None" /\ api'.archived = "False")
           => requests' = Append(requests, ArchivedOnly("False"))

\* C23 (as stated): no PagesAPI operation sends a DELETE, archive_page and
\* restore_page each send exactly one PATCH whose body is exactly the archived
\* flag, and archived is the terminal state: an archived page stays archived.
C23_ArchivedIsTerminal ==
    [][OneArchivedPatch /\ (page.archived => page'.archived)]_vars

\* C23 (amended): the same without the terminal state: restore_page (or
\* update_page with archived=false) takes an archived page back to live; no
\* operation takes a page beyond archived.
C23_ArchiveAndRestoreBySinglePatch == [][OneArchivedPatch]_vars

\* an archived page has been restored by restore_page
C23_Witness ==
    /\ api.op = "restore_page"
    /\ api.pc = "done"
    /\ ~page.archived
    /\ \E i \in 1..Len(requests) : requests[i] = ArchivedOnly("True")
    /\ requests[Len(requests)] = ArchivedOnly("False")

\* kind, content, checked flag and code language of a block
Shape(b) ==
    [type |-> b.type, checked |-> b.checked, language |-> b.language,
     content |-> IF b.type = "code" THEN b.content ELSE b.rich_text[1]]

Shapes(blks) == [i \in 1..Len(blks) |-> Shape(blks[i])]

\* C30: for every markdown parse_markdown_to_blocks accepts (lines with
\* leading whitespace before a marker and code blocks with an empty body
\* included), blocks_to_markdown of the blocks succeeds and parsing its result
\* yields the same sequence of kinds, contents, checked flags and languages.
C30_StableUnderReparsing ==
    (doc.given = "markdown" /\ doc.pc \in {"render_failed", "reparsed", "reparse_failed"})
        => /\ doc.pc = "reparsed"
           /\ Shapes(doc.reparsed) = Shapes(doc.blocks)

(***************************************************************************)
(* The checked flag of a block changes only where a call writes it         *)
(***************************************************************************)
\* the existing blocks whose checked flag the step changes
ChangedChecked == {b \in DOMAIN blocks : blocks'[b].checked # blocks[b].checked}

\* the blocks the step of client c may write: the block update_block is
\* called on, the subtask update_subtask_status is called on, and, with
\* update_parent, the direct parent of that subtask
Addressed(c) ==
    IF ~Running(c) /\ call'[c].op = "update_block" THEN {call'[c].id}
    ELSE IF call[c].pc = "uss_update" THEN {call[c].id}
    ELSE IF call[c].pc = "uss_parent" /\ call[c].update_parent
    THEN {blocks[call[c].id].parent} \ {NoId}
    ELSE {}

\* C25: the checked flag of an existing block changes only in a step of
\* update_block or update_subtask_status on that block, or in the parent
\* update of update_subtask_status(update_parent=True), which writes the direct
\* parent of the subtask and no other block; get_block, get_block_children,
\* get_subtasks, create_subtask and append_children change the flag of no
\* existing block, and update_subtask_status(update_parent=False) never writes
\* the parent.
C25_CheckedChangesOnlyWhereWritten ==
    [][ /\ \A b \in ChangedChecked :
              \E c \in Clients : call'[c] # call[c] /\ b \in Addressed(c)
        /\ \A c \in Clients :
              (Running(c) /\ call'[c] # call[c] /\ ~call[c].update_parent)
                  => ChangedChecked \subseteq {call[c].id}
        /\ \A c \in Clients :
              (~Running(c) /\ call'[c] # call[c]
                  /\ call'[c].op \in {"get_block", "get_block_children", "get_subtasks",
                                      "create_subtask", "append_children"})
                  => ChangedChecked = {}
      ]_vars

\* update_subtask_status(update_parent=True) on a subtask whose parent has a
\* parent of its own has returned the parent's response: the parent holds the
\* new value and the grandparent and a sibling do not
C25_Witness ==
    \E c \in Clients :
        /\ call[c].op = "update_subtask_status" /\ call[c].pc = "done"
        /\ call[c].ret = "parent_response"
        /\ LET p == blocks[call[c].id].parent
           IN  /\ blocks[p].parent # NoId
               /\ blocks[p].checked /\ ~blocks[blocks[p].parent].checked

\* C29: in a serial execution, when update_subtask_status(s, checked=False,
\* update_parent=True) has completed for a to_do block s that has a parent,
\* the parent is unchecked, whether s carries is_subtask or not and also when
\* the parent has no child flagged is_subtask.
C29_UncheckingUnchecksParent ==
    \A c \in Clients :
        (/\ call[c].op = "update_subtask_status" /\ call[c].pc = "done"
         /\ call[c].update_parent /\ ~call[c].checked
         /\ blocks[call[c].id].type = "to_do"
         /\ blocks[call[c].id].parent # NoId)
        => ~blocks[blocks[call[c].id].parent].checked

(***************************************************************************)
(* models/properties.py: TodoProperties                                    *)
(***************************************************************************)
\* MAX_TITLE_LENGTH
MaxTitleLength == 100

\* an Optional value: None, or a value
None == [some |-> FALSE, value |-> << >>]
Some(v) == [some |-> TRUE, value |-> v]

\* None where the value is a name (priority, status)
NoName == [some |-> FALSE, value |-> ""]

\* the truth value of an Optional string or list: None and empty are false
Truthy(opt) == opt.some /\ opt.value # << >>

\* s[:n]
Take(s, n) == SubSeq(s, 1, Min(n, Len(s)))

\* n in decimal, zero-padded to width w
Pad(n, w) == Repeat("0", w - Len(Str(n))) \o Str(n)

\* int(digits)
RECURSIVE Num(_)
Num(digits) ==
    IF digits = << >> THEN 0
    ELSE Num(SubSeq(digits, 1, Len(digits) - 1)) * 10
             + (CHOOSE d \in 0..9 : Str(d) = <<digits[Len(digits)]>>)

\* a naive datetime
DateTime(year, month, day, hour, minute, second, microsecond) ==
    [year |-> year, month |-> month, day |-> day, hour |-> hour,
     minute |-> minute, second |-> second, microsecond |-> microsecond]

\* datetime.isoformat(): the microseconds are printed only when not zero
IsoFormat(d) ==
    Pad(d.year, 4) \o <<"-">> \o Pad(d.month, 2) \o <<"-">> \o Pad(d.day, 2)
        \o <<"T">> \o Pad(d.hour, 2) \o <<":">> \o Pad(d.minute, 2)
        \o <<":">> \o Pad(d.second, 2)
        \o (IF d.microsecond # 0 THEN <<".">> \o Pad(d.microsecond, 6) ELSE << >>)

\* datetime.fromisoformat(s) on a string isoformat() printed
FromIsoFormat(s) ==
    DateTime(Num(SubSeq(s, 1, 4)), Num(SubSeq(s, 6, 7)), Num(SubSeq(s, 9, 10)),
             Num(SubSeq(s, 12, 13)), Num(SubSeq(s, 15, 16)), Num(SubSeq(s, 18, 19)),
             IF Len(s) > 19 THEN Num(SubSeq(s, 21, 26)) ELSE 0)

\* validate_description
ValidateDescription(v) ==
    IF ~v.some THEN Built(None)
    ELSE IF IsSpace(v.value) THEN Built(None)
    ELSE IF Len(v.value) > MaxTextLength THEN Failed("Description exceeds maximum")
    ELSE Built(Some(Strip(v.value)))

\* TodoProperties(task=..., description=..., ...): validate_task,
\* validate_description; the patterns of priority and status
TodoProperties(task, description, due_date, priority, tags, status) ==
    IF IsSpace(task) THEN Failed("Task title cannot be empty")
    ELSE IF Len(task) > MaxTitleLength THEN Failed("Task title exceeds maximum")
    ELSE IF ~ValidateDescription(description).ok
    THEN Failed(ValidateDescription(description).error)
    ELSE IF priority.some /\ priority.value \notin {"high", "medium", "low"}
    THEN Failed("String should match pattern")
    ELSE IF status.some /\ status.value \notin {"not_started", "in_progress", "completed"}
    THEN Failed("String should match pattern")
    ELSE Built([task |-> Strip(task),
                description |-> ValidateDescription(description).value,
                due_date |-> due_date, priority |-> priority, tags |-> tags,
                status |-> status])

\* the truth value of an Optional name or datetime
Present(opt) == opt.some /\ opt.value # ""

\* if self.tags: properties["Tags"] = {"multi_select": [...]}
TagsSent(t) == IF Truthy(t.tags) THEN Some(t.tags.value) ELSE None

\* TodoProperties.to_notion_properties: a key is present only for a truthy field
ToNotionProperties(t) ==
    [Task |-> Some(<<Take(t.task, MaxTitleLength)>>),
     Description |-> IF Truthy(t.description)
                     THEN Some(<<Take(t.description.value, MaxTextLength)>>) ELSE None,
     DueDate |-> IF t.due_date.some THEN Some(IsoFormat(t.due_date.value)) ELSE None,
     Priority |-> IF Present(t.priority) THEN Some(t.priority.value) ELSE NoName,
     Tags |-> TagsSent(t),
     Status |-> IF Present(t.status) THEN Some(t.status.value) ELSE NoName]

\* TodoProperties.from_notion_properties
FromNotionProperties(properties) ==
    TodoProperties(
        IF Truthy(properties.Task) THEN properties.Task.value[1] ELSE << >>,
        IF Truthy(properties.Description)
        THEN Some(properties.Description.value[1]) ELSE None,
        IF Truthy(properties.DueDate)
        THEN Some(FromIsoFormat(properties.DueDate.value)) ELSE None,
        IF Present(properties.Priority) THEN Some(properties.Priority.value) ELSE NoName,
        IF Truthy(properties.Tags) THEN Some(properties.Tags.value) ELSE None,
        IF Present(properties.Status) THEN Some(properties.Status.value) ELSE NoName)

\* the arguments TodoProperties is constructed with
TaskArgs == {<<"t">>, <<" ", "t", " ">>, << >>, Repeat("t", MaxTitleLength)}
DescriptionArgs == {None, Some(<<"d">>), Some(<<" ">>), Some(<<" ", "d">>)}
DueDateArgs ==
    {None, Some(DateTime(2024, 1, 15, 10, 30, 0, 0)),
     Some(DateTime(1999, 12, 31, 23, 59, 59, 500))}
PriorityArgs == {NoName, Some("high"), Some("low"), Some("urgent")}
TagArgs == {None, Some(<< >>), Some(<<"tag1">>), Some(<<"tag1", "tag2">>)}
StatusArgs == {NoName, Some("in_progress")}

InitTodo ==
    /\ InitStore(0, FALSE)
    /\ InitClients
    /\ InitApi
    /\ InitRetry
    /\ InitServer
    /\ \E task \in TaskArgs, description \in DescriptionArgs, due_date \in DueDateArgs,
          priority \in PriorityArgs, tags \in TagArgs, status \in StatusArgs :
          LET t == TodoProperties(task, description, due_date, priority, tags, status)
          IN  /\ t.ok
              /\ doc = [IdleDoc EXCEPT !.pc = "todo", !.given = "todo", !.todo = t.value]

\* notion_props = todo.to_notion_properties()
ToNotion ==
    /\ doc.pc = "todo"
    /\ doc' = [doc EXCEPT !.pc = "notion", !.properties = ToNotionProperties(doc.todo)]
    /\ UNCHANGED notDoc

\* todo2 = TodoProperties.from_notion_properties(notion_props)
FromNotion ==
    /\ doc.pc = "notion"
    /\ LET r == FromNotionProperties(doc.properties)
       IN  doc' = IF r.ok THEN [doc EXCEPT !.pc = "todo_back", !.todo_back = r.value]
                  ELSE [doc EXCEPT !.pc = "todo_failed", !.error = r.error]
    /\ UNCHANGED notDoc

NextTodo ==
    \/ ToNotion
    \/ FromNotion

SpecTodo == InitTodo /\ [][NextTodo]_vars

\* C24: from_notion_properties(to_notion_properties(t)) equals t on task,
\* description, due_date, priority, tags and status for every valid t, an
\* empty tag list included.
C24_TodoRoundTrip ==
    (doc.given = "todo" /\ doc.pc \in {"todo_back", "todo_failed"}) =>
        /\ doc.pc = "todo_back"
        /\ doc.todo_back = doc.todo

(***************************************************************************)
(* NotionServer.ensure_client and NotionServer.close                       *)
(***************************************************************************)
\* retry_count of ensure_client
EnsureRetryCount == 3

\* no ensure_client call is running
Between == server.pc \in {"idle", "returned", "raised", "closed"}

\* self.client.is_closed
IsClosed == server.client \in server.closed

\* if self.client is None or self.client.is_closed
NeedsClient == server.client = NoClient \/ IsClosed

\* ensure_client, entry: with a client that is not closed the call returns at
\* once
EnsureBegin ==
    /\ Between
    /\ server.ensures < MaxEnsures
    /\ server' = [server EXCEPT !.ensures = @ + 1, !.attempt = 0,
                                !.pc = IF NeedsClient THEN "connect" ELSE "returned"]
    /\ UNCHANGED notServer

\* one attempt: self.client = AsyncClient(...), the test request, and on
\* success the three API objects; on failure of the last attempt McpError is
\* raised and self.client keeps the client just made
EnsureAttempt(connected) ==
    /\ server.pc = "connect"
    /\ LET made == server.created + 1
       IN  server' =
               IF connected
               THEN [server EXCEPT !.client = made, !.created = made,
                                   !.pages_api = made, !.databases_api = made,
                                   !.blocks_api = made, !.pc = "returned"]
               ELSE [server EXCEPT !.client = made, !.created = made,
                                   !.pc = IF server.attempt = EnsureRetryCount - 1
                                          THEN "raised" ELSE "sleep"]
    /\ UNCHANGED notServer

\* await asyncio.sleep(2 ** attempt); if self.client: aclose, self.client = None
EnsureSleep ==
    /\ server.pc = "sleep"
    /\ server' = [server EXCEPT
           !.closed = IF server.client # NoClient THEN @ \cup {server.client} ELSE @,
           !.client = NoClient, !.attempt = @ + 1, !.pc = "connect"]
    /\ UNCHANGED notServer

\* NotionServer.close
Close ==
    /\ Between
    /\ server' = [server EXCEPT
           !.closed = IF server.client # NoClient THEN @ \cup {server.client} ELSE @,
           !.client = NoClient, !.pc = "closed"]
    /\ UNCHANGED notServer

NextServer ==
    \/ EnsureBegin
    \/ \E connected \in BOOLEAN : EnsureAttempt(connected)
    \/ EnsureSleep
    \/ Close

SpecServer == InitOneCall /\ [][NextServer]_vars

\* C26: whenever ensure_client returns without raising, server.client is a
\* client that is not closed and pages_api, databases_api and blocks_api are
\* set and bound to that client; so a failed ensure_client leaves no client
\* behind that lets a later ensure_client return without initialising.
C26_ReturnedMeansConnected ==
    server.pc = "returned" =>
        /\ server.client # NoClient
        /\ ~IsClosed
        /\ server.pages_api = server.client
        /\ server.databases_api = server.client
        /\ server.blocks_api = server.client

(***************************************************************************)
(* The add_content_blocks tool: with_retry around append_children          *)
(***************************************************************************)
\* a block of the parent that follows the anchor
TailId == AnchorId - 1

\* the parent holds the anchor alone, or the anchor and a block after it
Parents ==
    {InitialRemote, InitialRemote \o <<[id |-> TailId, content |-> 0]>>}

InitAdd ==
    /\ InitStore(0, FALSE)
    /\ InitClients
    /\ InitRetry
    /\ InitServer
    /\ InitDoc
    /\ api = IdleApi
    /\ requests = << >>
    /\ remote \in Parents
    /\ nextRid = FirstRid
    /\ page = InitialPage

\* the block lists and batch sizes the tool is called with; batch size 0
\* stands for the omitted argument too
AddLists == {blks \in InputLists : Len(blks) <= MaxBlocks}
AddBatchSizes == {0, 1, 2, NotionLimit + 1}

\* batch_size or 100
BatchSizeOr100(batch_size) == IF batch_size = 0 THEN NotionLimit ELSE batch_size

\* the wrapper of handle_add_blocks is entered with the tool's arguments
AddBlocksBegin(blks, after, batch_size, has_self) ==
    /\ rt.pc = "idle"
    /\ api.pc = "idle"
    /\ rt' = [IdleRetry EXCEPT !.func = "add_content_blocks", !.has_self = has_self,
                               !.pc = "add_ensure"]
    /\ api' = [IdleApi EXCEPT !.blocks = blks, !.arg_after = after,
                              !.batch_size = batch_size]
    /\ UNCHANGED <<requests, remote, nextRid, page, outcomes, slept>>
    /\ UNCHANGED <<treeVars, doc, server>>

\* handle_add_blocks: await self.ensure_client(), then append_children is
\* called with the tool's arguments and runs up to its first request
AddEnsure(connected) ==
    /\ rt.pc = "add_ensure"
    /\ IF connected
       THEN /\ rt' = [rt EXCEPT !.pc = "add_append"]
            /\ api' = AcStart(api.blocks, api.arg_after, BatchSizeOr100(api.batch_size))
            /\ UNCHANGED outcomes
       ELSE /\ rt' = [rt EXCEPT !.pc = "raised", !.ret = "McpError"]
            /\ outcomes' = Append(outcomes, "McpError")
            /\ UNCHANGED api
    /\ UNCHANGED <<requests, remote, nextRid, page, slept>>
    /\ UNCHANGED <<treeVars, doc, server>>

\* append_children has returned or raised: the handler returns the JSON of
\* the result or of the ValueError; an HTTP error reaches the wrapper, which
\* retries or raises the final McpError
AddAttemptEnd ==
    /\ rt.pc = "add_append"
    /\ api.pc \in {"done", "raised"}
    /\ LET e == IF api.pc = "done" THEN "ok" ELSE api.ret
       IN  /\ outcomes' = Append(outcomes, e)
           /\ rt' = IF e = "ok" THEN [rt EXCEPT !.pc = "done", !.ret = "json"]
                    ELSE IF e = "ValueError"
                    THEN [rt EXCEPT !.pc = "done", !.ret = "json_error"]
                    ELSE IF ShouldRetry(rt.attempt)
                    THEN [rt EXCEPT !.pc = "add_sleep", !.last_error = e]
                    ELSE [rt EXCEPT !.pc = "raised", !.last_error = e,
                                    !.ret = FinalError(e)]
    /\ UNCHANGED <<api, requests, remote, nextRid, page, slept>>
    /\ UNCHANGED <<treeVars, doc, server>>

\* await asyncio.sleep(2 ** attempt); if self: await self.ensure_client();
\* continue: the handler runs again with the same arguments
AddSleep(connected) ==
    /\ rt.pc = "add_sleep"
    /\ slept' = Append(slept, 2 ^ rt.attempt)
    /\ rt' = IF rt.has_self /\ ~connected
             THEN [rt EXCEPT !.pc = "raised", !.ret = "McpError"]
             ELSE [rt EXCEPT !.attempt = @ + 1, !.pc = "add_ensure"]
    /\ UNCHANGED <<api, requests, remote, nextRid, page, outcomes>>
    /\ UNCHANGED <<treeVars, doc, server>>

NextAdd ==
    \/ \E blks \in AddLists, after \in {NoId, AnchorId}, batch_size \in AddBatchSizes,
          has_self \in BOOLEAN : AddBlocksBegin(blks, after, batch_size, has_self)
    \/ \E connected \in BOOLEAN : AddEnsure(connected)
    \/ AcSend
    \/ \E outcome \in Outcomes : AcRespond(outcome)
    \/ AddAttemptEnd
    \/ \E connected \in BOOLEAN : AddSleep(connected)

SpecAdd == InitAdd /\ [][NextAdd]_vars

\* the number of children of the parent that hold input block k
Copies(k) == Cardinality({j \in 1..Len(remote) : remote[j].content = k})

\* C27: in one add_content_blocks call every input block is committed under
\* the parent at most once, whatever attempts of the wrapper fail.
C27_AtMostOnceUnderRetry ==
    rt.func = "add_content_blocks" =>
        \A k \in 1..Len(api.blocks) : Copies(k) <= 1

\* C28: when a chunked append_children after anchor A has completed, the input
\* blocks stand in input order right after A among the parent's children,
\* whether the input blocks carry an id or not.
C28_ContiguousAfterAnchor ==
    (/\ rt.func = "add_content_blocks" /\ rt.attempt = 0
     /\ api.pc = "done" /\ api.chunked /\ api.arg_after = AnchorId)
    => \E j \in 1..Len(remote) :
          /\ remote[j].id = AnchorId
          /\ \A k \in 1..Len(api.blocks) :
                j + k <= Len(remote) /\ remote[j + k].content = k

====
